---- MODULE Spec2Model ----
(***************************************************************************)
(* Model of GameMap (src/source/GameMap.cpp): the tile grid, the           *)
(* connectivity flood fill and the A* search, the sight queries, the game  *)
(* turn with its upkeep round and deletion queues, the seat pools and the  *)
(* lookups of the collections, and of the field locks of Creature          *)
(* (src/source/Creature.h).  A tile is identified by its coordinates       *)
(* <<x, y>>; a missing tile (NULL) is NoTile.                              *)
(***************************************************************************)
EXTENDS Integers, Sequences, FiniteSets, TLC

\* ------------------------------------------------------------------ bounds
\* Width and height of the map, the number of tiles of a level that are not
\* plain walkable ground, and the cap on the flood-fill colour counter.
MapSizeX == 3
MapSizeY == 2
MaxObstacles == 2
MaxUniqueNumber == 1
\* For the sight queries: the number of tiles of a level that are not plain
\* ground, the longest path handed to pathIsClear() and cutCorners(), and
\* the largest sight radius, in half tiles.
MaxSightObstacles == 1
MaxPathLen == 4
MaxRadius == 4
\* Number of creatures of a level.
MaxCreatures == 2
\* For the upkeep: the number of creatures of a level with dungeon temples,
\* and the number of upkeeps a level with seats is followed through.
MaxKobolds == 10
MaxTurns == 2
\* Number of seats of a level whose seats are moved between the pools.
MaxSeats == 4
\* Number of calls made to the game map between the turns of a game.
MaxCalls == 3
\* Number of calls that add or remove a creature while a level is set up.
MaxCreatureCalls == 5
\* Number of application modes that are entered one above the other.
MaxModeDepth == 5

\* ---------------------------------------------------------------- constants
\* doMiscUpkeep(): kobolds wanted per dungeon temple, mana gained per turn,
\* and the most mana a seat can hold.
KoboldsPerTemple == 4
ManaPerTurn == 50
MaxMana == 250000

\* ----------------------------------------------------------- value domains
Colors == {1, 2}
TileKinds == {"ground", "lava", "claimedWall"}
TileClearTypes == {"walkableTile", "flyableTile", "diggableTile", "impassableTile"}
NoTile == <<>>
Coords == (0 .. MapSizeX - 1) \X (0 .. MapSizeY - 1)
\* Coordinates a caller may pass: every tile of the map and one off the map.
InputPoints == Coords \cup {<<-1, 0>>}
NoArgs == [op |-> "none"]
\* A room, trap, missile object, map light, player or creature in a list of
\* the game map is the record of its type, the colour of its faction and a
\* number that tells it from the others of its type.
Entity(kind, color, id) == [kind |-> kind, color |-> color, id |-> id]
MapLights == {Entity("mapLight", 1, 1)}
\* NULL, and what a pointer read from outside a vector may point at.
NoEntity == Entity("NULL", 0, 0)
\* Nothing has been deleted.
NoDeletes == [entities |-> <<>>, mapLights |-> <<>>]
Garbage == Entity("garbage", 0, 0)
SeatColors == 1 .. MaxSeats
NoLos == [steep |-> FALSE, x1 |-> 0, xstep |-> 1, ystep |-> 1, TwoDy |-> 0,
          TwoDyTwoDx |-> 0, E |-> 0, x |-> 0, y |-> 0, path |-> <<>>,
          returned |-> FALSE]

VARIABLES
    tileKind,                   \* Tile::type and fullness of every tile
    floodFillColor,             \* Tile::floodFillColor of every tile
    floodFillEnabled,           \* GameMap::floodFillEnabled
    mUniqueNumberFloodFilling,  \* GameMap::mUniqueNumberFloodFilling
    pc,                         \* position of the running path()/pathExists() call
    args,                       \* arguments of the latest call
    openList,                   \* path(): openList
    closedList,                 \* path(): closedList
    returnList,                 \* the tile list returned by the latest call
    existsResult,               \* value returned by the latest pathExists()
    los,                        \* lineOfSight(): its local variables
    isClear,                    \* value returned by the latest pathIsClear()
    creatures,                  \* GameMap::creatures
    hp,                         \* Creature::hp of every creature
    filledSeats,                \* GameMap::filledSeats, by faction colour
    mNumCreaturesControlled,    \* Seat::mNumCreaturesControlled of every seat
    entitiesToDelete,           \* GameMap::entitiesToDelete
    deleted,                    \* the entities that have been destroyed
    turn,                       \* doTurn(): loop counters of the running phase
    phaseLog,                   \* phases run since the latest doTurn() began
    visited,                    \* creatures whose AI step ran in this turn
    turnStart,                  \* creatures and health when doTurn() began
    mapLightsToDelete,          \* GameMap::mapLightsToDelete
    deletedMapLights,           \* the map lights that have been destroyed
    deleteLog,                  \* the entities and map lights in the order of their delete
    emptySeats,                 \* GameMap::emptySeats, by faction colour
    popped,                     \* value returned by the latest pop of a seat
    activeObjects,              \* GameMap::activeObjects
    newActiveObjects,           \* GameMap::newActiveObjects
    rooms,                      \* GameMap::rooms
    traps,                      \* GameMap::traps
    missileObjects,             \* GameMap::missileObjects
    animatedObjects,            \* GameMap::animatedObjects
    numCoveredTiles,            \* Room::numCoveredTiles() of every room
    activeObjectCount,          \* doMiscUpkeep(): activeObjectCount
    sweepStart,                 \* activeObjects when the upkeep sweep began
    upkeepLog,                  \* objects whose doUpkeep() ran in this sweep
    finished,                   \* objects whose doUpkeep() returned false
    produceKoboldCalls,         \* temples told to produce a kobold in this pass
    winningSeats,               \* GameMap::winningSeats
    numUnmetGoals,              \* Seat::checkAllGoals() of every seat
    numFailedGoals,             \* Seat::numFailedGoals() of every seat
    mMana,                      \* Seat::mMana of every seat
    mGold,                      \* Seat::mGold of every seat
    mNumClaimedTiles,           \* Seat::mNumClaimedTiles of every seat
    tileColor,                  \* Tile::color of every tile
    passesLeft,                 \* upkeep passes still to be followed
    mapLights,                  \* GameMap::mapLights
    players,                    \* GameMap::players
    found,                      \* value returned by the latest lookup
    semaphore,                  \* the field semaphores of a creature
    thread,                     \* what each thread does to the creature
    cell,                       \* the creature's health, mana and on-map flag
    mIsServerGameMap,           \* GameMap::mIsServerGameMap
    mTurnNumber,                \* GameMap::mTurnNumber
    mIsPaused,                  \* GameMap::mIsPaused
    localPlayerSeat,            \* seat of GameMap::mLocalPlayer, by faction colour
    indicators,                 \* map lights whose editor indicator mesh exists
    meshes,                     \* entities whose scene mesh exists
    frameLog,                   \* objects animated by the latest frame
    coveringRoom,               \* Tile::coveringRoom of every tile
    goldInTile,                 \* RoomTreasury::goldInTile, summed over the tiles
    modesStack,                 \* ModeManager::modesStack, the top last
    focus,                      \* the application mode that was given the focus last
    callsLeft,                  \* calls of the game map still to be followed
    creaturesInCell,            \* Tile::creaturesInCell of every tile
    isOnMap                     \* creatures whose Creature::isOnMap is true

sightVars == <<los, isClear>>

\* Where the creatures of the map stand.
creatureVars == <<creaturesInCell, isOnMap>>

turnVars == <<creatures, creatureVars, hp, filledSeats, mNumCreaturesControlled,
              entitiesToDelete, deleted, turn, phaseLog, visited, turnStart>>

lightVars == <<mapLightsToDelete, deletedMapLights, deleteLog>>

seatVars == <<emptySeats, popped>>

staticObjectVars == <<activeObjects, newActiveObjects, rooms, traps, missileObjects,
                      numCoveredTiles>>

objectVars == <<staticObjectVars, animatedObjects>>

sweepVars == <<activeObjectCount, sweepStart, upkeepLog, finished>>

seatUpkeepVars == <<produceKoboldCalls, winningSeats, numUnmetGoals, numFailedGoals,
                    mMana, mGold, mNumClaimedTiles, tileColor, passesLeft>>

upkeepVars == <<objectVars, sweepVars, seatUpkeepVars>>

lookupVars == <<mapLights, players, found>>

lockVars == <<semaphore, thread, cell>>

frameVars == <<mIsServerGameMap, mTurnNumber, mIsPaused, localPlayerSeat, indicators,
               meshes, frameLog>>

\* The state of the parts of the game that stand apart from the turn.
\* The mode manager of the application.
modeVars == <<modesStack, focus>>

worldVars == <<frameVars, coveringRoom, goldInTile, modeVars, callsLeft>>

gameVars == <<seatVars, upkeepVars, lookupVars, lockVars, worldVars>>

\* Everything of gameVars but the animated objects.
gameVarsButAnimated == <<seatVars, staticObjectVars, sweepVars, seatUpkeepVars,
                         lookupVars, lockVars, worldVars>>

vars == <<tileKind, floodFillColor, floodFillEnabled, mUniqueNumberFloodFilling,
          pc, args, openList, closedList, returnList, existsResult, sightVars,
          turnVars, lightVars, gameVars>>

mapVars == <<tileKind, floodFillColor, floodFillEnabled, mUniqueNumberFloodFilling>>

\* What the path and sight queries leave behind.
queryVars == <<openList, closedList, returnList, existsResult, sightVars>>

\* F applied to the value of x, with x evaluated once.
Apply(F(_), x) == CHOOSE r \in {F(v) : v \in {x}} : TRUE

\* ------------------------------------------------------------------- tiles
Abs(n) == IF n < 0 THEN -n ELSE n

\* The colour owning a claimed wall: the lowest faction colour.
WallColor == CHOOSE c \in Colors : \A d \in Colors : c <= d

getTile(x, y) == IF <<x, y>> \in Coords THEN <<x, y>> ELSE NoTile

getTilePassability(t) ==
    CASE tileKind[t] = "ground" -> "walkableTile"
      [] tileKind[t] = "lava" -> "flyableTile"
      [] OTHER -> "impassableTile"

isDiggable(t, color) == tileKind[t] = "claimedWall" /\ color = WallColor

\* The existing tiles next to (x, y), in the order the container yields them.
neighborTiles(x, y) ==
    SelectSeq(<< <<x - 1, y>>, <<x + 1, y>>, <<x, y - 1>>, <<x, y + 1>> >>,
              LAMBDA n : n \in Coords)

getAllNeighbors(t) == neighborTiles(t[1], t[2])

\* -------------------------------------------------------------- flood fill
walkablePathExists(x1, y1, x2, y2) ==
    IF getTile(x1, y1) # NoTile
    THEN IF getTile(x2, y2) # NoTile
         THEN floodFillColor[getTile(x1, y1)] = floodFillColor[getTile(x2, y2)]
         ELSE FALSE
    ELSE FALSE

\* doFloodFill without its neighbour loop: only the start tile is coloured.
doFloodFillStartOnly(enabled, fc, t, color) ==
    IF ~enabled THEN fc
    ELSE IF getTilePassability(t) = "walkableTile"
         THEN [fc EXCEPT ![t] = color]
         ELSE fc

RECURSIVE doFloodFill(_, _, _, _)
RECURSIVE FloodNeighbors(_, _, _, _)

\* The neighbour loop of doFloodFill: recurse into every neighbour that does
\* not carry the colour yet.
FloodNeighbors(enabled, fc, ns, color) ==
    IF ns = <<>> THEN fc
    ELSE LET n == Head(ns)
             Rest(fc1) == FloodNeighbors(enabled, fc1, Tail(ns), color)
         IN  Apply(Rest, IF fc[n] # color
                         THEN doFloodFill(enabled, fc, n, color)
                         ELSE fc)

\* doFloodFill(startX, startY, passability, color) with color >= 0: the
\* colouring it leaves behind.
doFloodFill(enabled, fc, t, color) ==
    IF ~enabled THEN fc
    ELSE IF getTilePassability(t) = "walkableTile"
         THEN FloodNeighbors(enabled, [fc EXCEPT ![t] = color],
                             neighborTiles(t[1], t[2]), color)
         ELSE fc

\* Tile number k of the row-major sweep (jj outer, ii inner).
SweepTile(k) == <<k % MapSizeX, k \div MapSizeX>>

RECURSIVE FloodSweep(_, _, _)
\* The second loop of enableFloodFill from sweep position k on: every tile
\* still carrying -1 starts a fill with a freshly drawn colour.
FloodSweep(fc, uniq, k) ==
    IF k >= MapSizeX * MapSizeY THEN [fc |-> fc, uniq |-> uniq]
    ELSE IF fc[SweepTile(k)] = -1
         THEN LET Rest(fc1) == FloodSweep(fc1, uniq + 1, k + 1)
              IN  Apply(Rest, doFloodFill(TRUE, fc, SweepTile(k), uniq + 1))
         ELSE FloodSweep(fc, uniq, k + 1)

enableFloodFill ==
    /\ pc = "idle"
    /\ mUniqueNumberFloodFilling < MaxUniqueNumber
    /\ LET swept == FloodSweep([t \in Coords |-> -1], mUniqueNumberFloodFilling, 0)
       IN  /\ floodFillColor' = swept.fc
           /\ mUniqueNumberFloodFilling' = swept.uniq
    /\ floodFillEnabled' = TRUE
    /\ UNCHANGED <<gameVars, lightVars, tileKind, pc, args, openList, closedList,
                   returnList, existsResult, sightVars, turnVars>>

\* ---------------------------------------------------------------- A* search
NewAstarEntry == [tile |-> NoTile, parent |-> NoTile, g |-> 0, h |-> 0]

setHeuristic(e, x1, y1, x2, y2) == [e EXCEPT !.h = Abs(x2 - x1) + Abs(y2 - y1)]

AstarEntry(tile, x1, y1, x2, y2) ==
    setHeuristic([NewAstarEntry EXCEPT !.tile = tile], x1, y1, x2, y2)

fCost(e) == e.g + e.h

RECURSIVE ScanSmallest(_, _, _)
ScanSmallest(list, i, best) ==
    IF i > Len(list) THEN best
    ELSE ScanSmallest(list, i + 1,
                      IF fCost(list[i]) < fCost(list[best]) THEN i ELSE best)

\* Index of the entry the search takes next from the open list.
smallestAstar(list) == ScanSmallest(list, 1, 1)

RemoveAt(list, i) == SubSeq(list, 1, i - 1) \o SubSeq(list, i + 1, Len(list))

\* Index of the first entry of the list on tile t, 0 when there is none.
FindTile(list, t) ==
    IF \E i \in 1 .. Len(list) : list[i].tile = t
    THEN CHOOSE i \in 1 .. Len(list) :
            /\ list[i].tile = t
            /\ \A j \in 1 .. i - 1 : list[j].tile # t
    ELSE 0

\* The switch on the passability class: may the search step onto tile t?
processNeighbor(passability, t, color) ==
    CASE passability = "flyableTile" ->
            getTilePassability(t) \in {"walkableTile", "flyableTile"}
      [] passability = "diggableTile" ->
            getTilePassability(t) = "walkableTile" \/ isDiggable(t, color)
      [] passability = "impassableTile" -> TRUE
      [] OTHER -> getTilePassability(t) = "walkableTile"

\* neighborInClosedList with the scan starting at the second entry.
neighborInClosedListSkipFirst(closed, t) == FindTile(Tail(closed), t) # 0

\* Is tile t on the closed list?
neighborInClosedList(closed, t) == FindTile(closed, t) # 0

\* One pass of the neighbour loop body for neighbour n; the current entry is
\* the last one of the closed list.
VisitNeighbor(st, n, a) ==
    LET cur == st.closed[Len(st.closed)]
        inOpen == FindTile(st.open, n)
    IN  IF ~processNeighbor(a.passability, n, a.color) THEN st
        ELSE IF neighborInClosedList(st.closed, n) THEN st
        ELSE IF inOpen = 0
        THEN [open |-> Append(st.open,
                        [NewAstarEntry EXCEPT !.tile = n, !.g = cur.g + 1,
                                              !.parent = cur.tile]),
              closed |-> [st.closed EXCEPT ![Len(st.closed)] =
                            setHeuristic(cur, a.x1, a.y1, n[1], n[2])]]
        ELSE IF cur.g + 1 < st.open[inOpen].g
        THEN [st EXCEPT !.open[inOpen].g = cur.g + 1,
                        !.open[inOpen].parent = cur.tile]
        ELSE st

RECURSIVE VisitAll(_, _, _)
VisitAll(st, ns, a) ==
    IF ns = <<>> THEN st
    ELSE LET Rest(v) == VisitAll(v, Tail(ns), a)
         IN  Apply(Rest, VisitNeighbor(st, Head(ns), a))

\* ProcessNeighbors with the loop starting at the second neighbour.
ProcessNeighborsSkipFirst(st, a) ==
    VisitAll(st, Tail(getAllNeighbors(st.closed[Len(st.closed)].tile)), a)

\* ProcessNeighbors with the loop ending one neighbour early.
ProcessNeighborsSkipLast(st, a) ==
    LET ns == getAllNeighbors(st.closed[Len(st.closed)].tile)
    IN  VisitAll(st, SubSeq(ns, 1, Len(ns) - 1), a)

\* The neighbour loop of one iteration of the search loop.
ProcessNeighbors(st, a) ==
    VisitAll(st, getAllNeighbors(st.closed[Len(st.closed)].tile), a)

\* One iteration of the search loop on a non-empty open list.
SearchIteration(open, closed, a) ==
    LET k == smallestAstar(open)
        currentEntry == open[k]
        st == [open |-> RemoveAt(open, k), closed |-> Append(closed, currentEntry)]
    IN  IF currentEntry.tile = getTile(a.x2, a.y2)
        THEN [open |-> st.open, closed |-> st.closed, pathFound |-> TRUE]
        ELSE LET Visit(v) == ProcessNeighbors(v, a)
                 NotFound(nx) == [open |-> nx.open, closed |-> nx.closed,
                                  pathFound |-> FALSE]
             IN  Apply(NotFound, Apply(Visit, st))

RECURSIVE ParentChain(_, _)
\* Follow the parent chain from tile t back to the start tile.
ParentChain(closed, t) ==
    LET e == closed[FindTile(closed, t)]
    IN  IF e.parent = NoTile THEN <<t>>
        ELSE Append(ParentChain(closed, e.parent), t)

\* PathEarlyReturn without the test of the start tile.
PathEarlyReturnNoStartCheck(a) ==
    \/ /\ floodFillEnabled
       /\ a.passability = "walkableTile"
       /\ ~walkablePathExists(a.x1, a.y1, a.x2, a.y2)
    \/ getTile(a.x2, a.y2) = NoTile

\* PathEarlyReturn without the flood-fill colour test.
PathEarlyReturnNoColorCheck(a) ==
    \/ getTile(a.x1, a.y1) = NoTile
    \/ getTile(a.x2, a.y2) = NoTile

\* The three early returns at the head of path().
PathEarlyReturn(a) ==
    \/ getTile(a.x1, a.y1) = NoTile
    \/ /\ floodFillEnabled
       /\ a.passability = "walkableTile"
       /\ ~walkablePathExists(a.x1, a.y1, a.x2, a.y2)
    \/ getTile(a.x2, a.y2) = NoTile

RECURSIVE RunSearch(_, _, _)
RunSearch(open, closed, a) ==
    IF open = <<>> THEN <<>>
    ELSE LET Continue(s) ==
                 IF s.pathFound THEN ParentChain(s.closed, getTile(a.x2, a.y2))
                 ELSE RunSearch(s.open, s.closed, a)
         IN  Apply(Continue, SearchIteration(open, closed, a))

\* The value of one whole call path(x1, y1, x2, y2, passability, color).
path(a) ==
    IF PathEarlyReturn(a) THEN <<>>
    ELSE RunSearch(<<AstarEntry(<<a.x1, a.y1>>, a.x1, a.y1, a.x2, a.y2)>>, <<>>, a)

\* pathExists accepting a path of a single tile.
pathExistsOneTile(a) ==
    IF a.passability = "walkableTile"
    THEN walkablePathExists(a.x1, a.y1, a.x2, a.y2)
    ELSE Len(path(a)) >= 1

pathExists(a) ==
    IF a.passability = "walkableTile"
    THEN walkablePathExists(a.x1, a.y1, a.x2, a.y2)
    ELSE Len(path(a)) >= 2

CallArgs(op, p1, p2, passability, color) ==
    [op |-> op, x1 |-> p1[1], y1 |-> p1[2], x2 |-> p2[1], y2 |-> p2[2],
     passability |-> passability, color |-> color]

\* Entry of path(): the early returns, else the start entry goes on the open list.
PathCall ==
    /\ pc = "idle"
    /\ \E p1 \in InputPoints, p2 \in InputPoints, passability \in TileClearTypes,
          color \in Colors :
          LET a == CallArgs("path", p1, p2, passability, color)
          IN  /\ args' = a
              /\ IF PathEarlyReturn(a)
                 THEN /\ pc' = "done"
                      /\ openList' = <<>>
                 ELSE /\ pc' = "search"
                      /\ openList' = <<AstarEntry(p1, a.x1, a.y1, a.x2, a.y2)>>
    /\ closedList' = <<>>
    /\ returnList' = <<>>
    /\ UNCHANGED <<gameVars, lightVars, mapVars, existsResult, sightVars, turnVars>>

\* One iteration of the search loop with a non-empty open list.
SearchExpand ==
    /\ pc = "search"
    /\ openList # <<>>
    /\ LET s == SearchIteration(openList, closedList, args)
       IN  /\ openList' = s.open
           /\ closedList' = s.closed
           /\ pc' = IF s.pathFound THEN "found" ELSE "search"
    /\ UNCHANGED <<gameVars, lightVars, mapVars, args, returnList, existsResult,
                   sightVars, turnVars>>

\* The search loop finds the open list empty and gives up.
SearchExhausted ==
    /\ pc = "search"
    /\ openList = <<>>
    /\ pc' = "failed"
    /\ UNCHANGED <<gameVars, lightVars, mapVars, args, openList, closedList, returnList,
                   existsResult, sightVars, turnVars>>

\* After the loop: build the result from the parent chain, free the entries.
PathReturn ==
    /\ pc \in {"found", "failed"}
    /\ returnList' = IF pc = "found"
                     THEN ParentChain(closedList, getTile(args.x2, args.y2))
                     ELSE <<>>
    /\ openList' = <<>>
    /\ closedList' = <<>>
    /\ pc' = "done"
    /\ UNCHANGED <<gameVars, lightVars, mapVars, args, existsResult, sightVars,
                   turnVars>>

\* One whole call of pathExists().
PathExistsCall ==
    /\ pc = "idle"
    /\ \E p1 \in InputPoints, p2 \in InputPoints, passability \in TileClearTypes,
          color \in Colors :
          LET a == CallArgs("pathExists", p1, p2, passability, color)
          IN  /\ args' = a
              /\ existsResult' = pathExists(a)
    /\ pc' = "done"
    /\ openList' = <<>>
    /\ closedList' = <<>>
    /\ returnList' = <<>>
    /\ UNCHANGED <<gameVars, lightVars, mapVars, sightVars, turnVars>>

\* The caller has taken the returned value; the map is ready for the next call.
CallerResumes ==
    /\ pc = "done"
    /\ pc' = "idle"
    /\ args' = NoArgs
    /\ returnList' = <<>>
    /\ existsResult' = FALSE
    /\ los' = NoLos
    /\ isClear' = FALSE
    /\ UNCHANGED <<gameVars, lightVars, mapVars, openList, closedList, turnVars>>

\* ----------------------------------------------------------- line of sight
\* lineOfSight() up to its loop: the swap of a steep line, the step
\* directions and the error terms.
LosBegin(x0, y0, x1, y1) ==
    LET steep == Abs(y1 - y0) >= Abs(x1 - x0)
        sx0 == IF steep THEN y0 ELSE x0
        sy0 == IF steep THEN x0 ELSE y0
        sx1 == IF steep THEN y1 ELSE x1
        sy1 == IF steep THEN x1 ELSE y1
        Dx == Abs(sx1 - sx0)
        Dy == Abs(sy1 - sy0)
    IN  [steep |-> steep, x1 |-> sx1,
         xstep |-> IF sx1 - sx0 < 0 THEN -1 ELSE 1,
         ystep |-> IF sy1 - sy0 < 0 THEN -1 ELSE 1,
         TwoDy |-> 2 * Dy, TwoDyTwoDx |-> 2 * Dy - 2 * Dx, E |-> 2 * Dy - Dx,
         x |-> sx0, y |-> sy0, path |-> <<>>, returned |-> FALSE]

\* Coordinates of the tile of the line the loop is at (xDraw, yDraw).
DrawnTile(s) == IF s.steep THEN <<s.y, s.x>> ELSE <<s.x, s.y>>

\* Coordinates of the extra tile added when the line is about to step in y.
ExtraTile(s) == <<DrawnTile(s)[1] + 1, s.y>>

\* The return without path.clear().
LosAbortKeepsPath(s) == [s EXCEPT !.returned = TRUE]

\* path.clear(); return path.
LosAbort(s) == [s EXCEPT !.path = <<>>, !.returned = TRUE]

\* One iteration of the loop of lineOfSight().
LosIteration(s) ==
    LET d == DrawnTile(s)
        e == ExtraTile(s)
    IN  IF getTile(d[1], d[2]) = NoTile THEN LosAbort(s)
        ELSE IF s.E > 0
             THEN IF getTile(e[1], e[2]) = NoTile
                  THEN LosAbort([s EXCEPT !.path = Append(s.path, d)])
                  ELSE [s EXCEPT !.path = s.path \o <<d, e>>,
                                 !.E = s.E + s.TwoDyTwoDx,
                                 !.y = s.y + s.ystep,
                                 !.x = s.x + s.xstep]
             ELSE [s EXCEPT !.path = Append(s.path, d),
                            !.E = s.E + s.TwoDy,
                            !.x = s.x + s.xstep]

RECURSIVE RunLos(_)
RunLos(s) ==
    IF s.returned \/ s.x = s.x1 THEN s.path ELSE RunLos(Apply(LosIteration, s))

lineOfSight(x0, y0, x1, y1) == RunLos(LosBegin(x0, y0, x1, y1))

LosArgs(p1, p2) ==
    [op |-> "lineOfSight", x1 |-> p1[1], y1 |-> p1[2], x2 |-> p2[1], y2 |-> p2[2]]

\* Entry of lineOfSight().
LineOfSightCall ==
    /\ pc = "idle"
    /\ \E p1 \in InputPoints, p2 \in InputPoints :
          /\ args' = LosArgs(p1, p2)
          /\ los' = LosBegin(p1[1], p1[2], p2[1], p2[2])
    /\ pc' = "tracing"
    /\ returnList' = <<>>
    /\ UNCHANGED <<gameVars, lightVars, mapVars, openList, closedList, existsResult,
                   isClear, turnVars>>

\* One pass through the loop: the tiles are added, or a missing tile makes
\* the function return the cleared path.
LineOfSightStep ==
    /\ pc = "tracing"
    /\ los.x # los.x1
    /\ los' = LosIteration(los)
    /\ pc' = IF los'.returned THEN "done" ELSE "tracing"
    /\ returnList' = IF los'.returned THEN los'.path ELSE returnList
    /\ UNCHANGED <<gameVars, lightVars, mapVars, args, openList, closedList,
                   existsResult, isClear, turnVars>>

\* The loop has reached x1: the path is returned.
LineOfSightReturn ==
    /\ pc = "tracing"
    /\ los.x = los.x1
    /\ returnList' = los.path
    /\ pc' = "done"
    /\ UNCHANGED <<gameVars, lightVars, mapVars, args, openList, closedList,
                   existsResult, sightVars, turnVars>>

\* ------------------------------------------------------------ pathIsClear
RECURSIVE ClearLoop(_, _, _)
\* The loop of pathIsClear() from the i-th tile on: "true", "false", or
\* "exit" when the switch reaches its default branch.
ClearLoop(p, i, passability) ==
    IF i > Len(p) THEN "true"
    ELSE CASE passability = "walkableTile" ->
                 IF getTilePassability(p[i]) = "walkableTile"
                 THEN ClearLoop(p, i + 1, passability) ELSE "false"
           [] passability = "flyableTile" ->
                 IF getTilePassability(p[i]) \in {"walkableTile", "flyableTile"}
                 THEN ClearLoop(p, i + 1, passability) ELSE "false"
           [] passability = "impassableTile" -> "false"
           [] OTHER -> "exit"

pathIsClear(p, passability) ==
    IF p = <<>> THEN "false" ELSE ClearLoop(p, 1, passability)

\* A tile that can follow the list q on a path: next to its last tile and
\* not on it already.
CanExtend(q, t) ==
    /\ q # <<>> => Abs(q[Len(q)][1] - t[1]) + Abs(q[Len(q)][2] - t[2]) = 1
    /\ \A k \in 1 .. Len(q) : q[k] # t

RECURSIVE TilePaths(_)
\* Every 4-connected path of at most n distinct tiles: the lists path() can
\* hand to pathIsClear() and cutCorners().
TilePaths(n) ==
    IF n = 0 THEN {<<>>}
    ELSE LET shorter == TilePaths(n - 1)
         IN  shorter \cup
             {Append(e[1], e[2]) :
                 e \in {f \in shorter \X Coords :
                           Len(f[1]) = n - 1 /\ CanExtend(f[1], f[2])}}

\* One whole call of pathIsClear(); exit(1) ends the process.
PathIsClearCall ==
    /\ pc = "idle"
    /\ \E p \in TilePaths(MaxPathLen), passability \in TileClearTypes :
          LET r == pathIsClear(p, passability)
          IN  /\ args' = [op |-> "pathIsClear", path |-> p, passability |-> passability]
              /\ pc' = IF r = "exit" THEN "exited" ELSE "done"
              /\ isClear' = (r = "true")
    /\ UNCHANGED <<gameVars, lightVars, mapVars, openList, closedList, returnList,
                   existsResult, los, turnVars>>

\* -------------------------------------------------------------- cutCorners
RECURSIVE ScanClear(_, _, _, _)
\* The inner loop of cutCorners(): the position t2 stops at, 0 when
\* pathIsClear() ends the process.
ScanClear(p, i, j, passability) ==
    IF j > Len(p) THEN j
    ELSE LET r == pathIsClear(lineOfSight(p[i][1], p[i][2], p[j][1], p[j][2]),
                              passability)
         IN  IF r = "exit" THEN 0
             ELSE IF r = "true" THEN ScanClear(p, i, j + 1, passability)
             ELSE j

\* path.erase(t3, t4) with t3 after t1 = i and t4 before t2 = j.
EraseBetween(p, i, j) ==
    IF i + 1 # j /\ i + 1 # j - 1
    THEN SubSeq(p, 1, i) \o SubSeq(p, j - 1, Len(p))
    ELSE p

RECURSIVE CutLoop(_, _, _)
\* The outer loop of cutCorners() with t1 at position i.
CutLoop(p, i, passability) ==
    IF i > Len(p) THEN [exited |-> FALSE, path |-> p]
    ELSE LET j == ScanClear(p, i, i + 1, passability)
         IN  IF j = 0 THEN [exited |-> TRUE, path |-> p]
             ELSE LET q == EraseBetween(p, i, j)
                  IN  CutLoop(q, j - (Len(p) - Len(q)), passability)

cutCorners(p, passability) ==
    IF Len(p) <= 3 THEN [exited |-> FALSE, path |-> p]
    ELSE CutLoop(p, 1, passability)

\* One whole call of cutCorners(); the list is changed in place.
CutCornersCall ==
    /\ pc = "idle"
    /\ \E p \in TilePaths(MaxPathLen), passability \in TileClearTypes :
          LET r == cutCorners(p, passability)
          IN  /\ args' = [op |-> "cutCorners", path |-> p, passability |-> passability]
              /\ pc' = IF r.exited THEN "exited" ELSE "done"
              /\ returnList' = r.path
    /\ UNCHANGED <<gameVars, lightVars, mapVars, openList, closedList, existsResult,
                   sightVars, turnVars>>

\* ------------------------------------------------------------ visibleTiles
\* A sight radius is given in half tiles; (int)(sightRadius * sightRadius).
sightRadiusSquared(r) == (r * r) \div 4

\* Largest offset of the precomputed table of tile offsets.
TableRadius == (MaxRadius + 1) \div 2 + 1

RadiusSquared(o) == o[1] * o[1] + o[2] * o[2]

\* Position of an offset in the table: by distance, then by coordinates.
SpiralKey(o) ==
    (RadiusSquared(o) * (2 * TableRadius + 1) + o[1] + TableRadius)
        * (2 * TableRadius + 1) + o[2] + TableRadius

RECURSIVE SortByRadius(_)
SortByRadius(S) ==
    IF S = {} THEN <<>>
    ELSE LET m == CHOOSE o \in S : \A q \in S : SpiralKey(o) <= SpiralKey(q)
         IN  <<m>> \o SortByRadius(S \ {m})

\* TileCoordinateMap: the tile offsets around an origin, nearest first.
tileCoordinateMap ==
    SortByRadius((-TableRadius .. TableRadius) \X (-TableRadius .. TableRadius))

\* 1000 * tan(1.5 / sqrt(rsq)), rounded down.
TanDeltaTheta(rsq) ==
    LET table == <<14101, 1787, 1175, 931, 793, 702, 636, 586, 546, 513, 485,
                   462, 441, 423, 407, 393, 380, 369, 358, 348, 339, 331, 323,
                   316, 309, 302, 296, 291, 285, 280, 276, 271>>
    IN  table[IF rsq <= Len(table) THEN rsq ELSE Len(table)]

\* The direction of offset c lies within deltaTheta = 1.5 / sqrt(rsq) of the
\* direction of the obstructing offset o.
directionIsBetween(o, c) ==
    LET dot == o[1] * c[1] + o[2] * c[2]
        cross == o[1] * c[2] - o[2] * c[1]
    IN  dot > 0 /\ 1000 * Abs(cross) <= TanDeltaTheta(RadiusSquared(o)) * dot

permitsVision(t) == tileKind[t] # "claimedWall"

RECURSIVE FillQueue(_, _, _, _)
\* The first loop of visibleTiles() at table position k: the offsets of the
\* existing tiles within the sight radius, in table order.
FillQueue(start, rsqMax, k, queue) ==
    IF k > Len(tileCoordinateMap) THEN queue
    ELSE IF RadiusSquared(tileCoordinateMap[k]) > rsqMax THEN queue
    ELSE LET o == tileCoordinateMap[k]
         IN  IF getTile(start[1] + o[1], start[2] + o[2]) # NoTile
             THEN FillQueue(start, rsqMax, k + 1, Append(queue, o))
             ELSE FillQueue(start, rsqMax, k + 1, queue)

RECURSIVE ProcessQueue(_, _, _)
\* The second loop of visibleTiles(): the front tile is visible; an opaque
\* one removes the queued tiles it obscures.
ProcessQueue(start, queue, tempVector) ==
    IF queue = <<>> THEN tempVector
    ELSE LET o == Head(queue)
             t == <<start[1] + o[1], start[2] + o[2]>>
         IN  IF permitsVision(t)
             THEN ProcessQueue(start, Tail(queue), Append(tempVector, t))
             ELSE ProcessQueue(start,
                               SelectSeq(Tail(queue),
                                         LAMBDA c : ~directionIsBetween(o, c)),
                               Append(tempVector, t))

\* The queue with the farthest tile at its front.
tileQueueFarthestFirst(start, rsqMax) ==
    LET q == FillQueue(start, rsqMax, 1, <<>>)
    IN  [i \in 1 .. Len(q) |-> q[Len(q) + 1 - i]]

\* The queue of candidate tiles, nearest first.
tileQueue(start, rsqMax) == FillQueue(start, rsqMax, 1, <<>>)

visibleTiles(startTile, sightRadius) ==
    IF ~permitsVision(startTile) THEN <<>>
    ELSE ProcessQueue(startTile,
                      Apply(LAMBDA r : tileQueue(startTile, r),
                            sightRadiusSquared(sightRadius)),
                      <<>>)

\* One whole call of visibleTiles() on an existing tile.
VisibleTilesCall ==
    /\ pc = "idle"
    /\ \E t \in Coords, r \in 0 .. MaxRadius :
          /\ args' = [op |-> "visibleTiles", x1 |-> t[1], y1 |-> t[2], sightRadius |-> r]
          /\ returnList' = visibleTiles(t, r)
    /\ pc' = "done"
    /\ UNCHANGED <<gameVars, lightVars, mapVars, openList, closedList, existsResult,
                   sightVars, turnVars>>

\* ------------------------------------------------------------- turn engine
CreatureIds == 1 .. MaxCreatures
HitPoints == {0, 1}
NoSeat == 0
NoTurn == [i |-> 0, numCreatures |-> 0]
NoTurnStart == [creatures |-> <<>>, hp |-> <<>>]

Elements(list) == {list[i] : i \in 1 .. Len(list)}

\* list without its element number i, counted from 0: vector erase.
EraseAt(list, i) == SubSeq(list, 1, i) \o SubSeq(list, i + 2, Len(list))

\* Position of the first element equal to a, counted from 0; Len(list) when
\* there is none.
RECURSIVE IndexOf(_, _, _)
IndexOf(list, a, i) ==
    IF i >= Len(list) THEN Len(list)
    ELSE IF list[i + 1] = a THEN i ELSE IndexOf(list, a, i + 1)

\* Creature::getColor(): the faction colour a creature was loaded with.
getColor(c) == IF c <= 2 THEN 1 ELSE 2

\* Creature::getControllingPlayer() and Player::getSeat(): the filled seat of
\* the creature's colour, NoSeat when no player holds it.
getControllingSeat(c) ==
    IF getColor(c) \in Elements(filledSeats) THEN getColor(c) ELSE NoSeat

\* Creatures that exist but are neither on the map, queued nor destroyed.
OffMap == {c \in CreatureIds :
              c \notin Elements(creatures) /\ c \notin Elements(entitiesToDelete)
              /\ c \notin deleted}

turnLocals == <<turn, visited, turnStart>>

\* Creature::positionTile(): the tile a creature stands on.
positionTile(c) == <<(c - 1) % MapSizeX, 0>>

\* Every creature of the map was put there by addCreature().
CreaturesPlaced ==
    /\ isOnMap = Elements(creatures)
    /\ creaturesInCell = [t \in Coords |->
                             {c \in Elements(creatures) : positionTile(c) = t}]

\* Tile::addCreature(cc) and Tile::removeCreature(c) on the tile of the
\* creature.
TileAddCreature(cells, cc) == [cells EXCEPT ![positionTile(cc)] = @ \cup {cc}]
TileRemoveCreature(cells, c) == [cells EXCEPT ![positionTile(c)] = @ \ {c}]

\* A creature as it stands in the list of animated objects.
Animated(c) == Entity("creature", getColor(c), c)

\* addCreature(cc), called by the level loader.
addCreature ==
    /\ pc = "idle"
    /\ \E cc \in OffMap :
          /\ creatures' = Append(creatures, cc)
          /\ creaturesInCell' = TileAddCreature(creaturesInCell, cc)
          /\ animatedObjects' = Append(animatedObjects, Animated(cc))
          /\ isOnMap' = isOnMap \cup {cc}
    /\ UNCHANGED <<gameVarsButAnimated, lightVars, mapVars, pc, args, openList,
                   closedList, returnList, existsResult, sightVars, hp, filledSeats,
                   mNumCreaturesControlled, entitiesToDelete, deleted, phaseLog,
                   turnLocals>>

\* removeCreature(c): the first entry equal to c is erased.
removeCreature ==
    /\ pc = "idle"
    /\ \E c \in Elements(creatures) :
          /\ creatures' = EraseAt(creatures, IndexOf(creatures, c, 0))
          /\ creaturesInCell' = TileRemoveCreature(creaturesInCell, c)
          /\ animatedObjects' =
                EraseAt(animatedObjects, IndexOf(animatedObjects, Animated(c), 0))
          /\ isOnMap' = isOnMap \ {c}
    /\ UNCHANGED <<gameVarsButAnimated, lightVars, mapVars, pc, args, openList,
                   closedList, returnList, existsResult, sightVars, hp, filledSeats,
                   mNumCreaturesControlled, entitiesToDelete, deleted, phaseLog,
                   turnLocals>>

\* addCreature(cc) and removeCreature(c) as any caller may call them: for a
\* creature that is on the map already, or for one that is not.
AddCreatureCall ==
    /\ pc = "idle"
    /\ callsLeft > 0
    /\ callsLeft' = callsLeft - 1
    /\ \E cc \in CreatureIds :
          /\ creatures' = Append(creatures, cc)
          /\ creaturesInCell' = TileAddCreature(creaturesInCell, cc)
          /\ animatedObjects' = Append(animatedObjects, Animated(cc))
          /\ isOnMap' = isOnMap \cup {cc}
          /\ args' = [op |-> "addCreature", creature |-> cc]
    /\ UNCHANGED <<queryVars, mapVars, seatVars, staticObjectVars, sweepVars,
                   seatUpkeepVars, lookupVars, lockVars, frameVars, coveringRoom, goldInTile, modeVars,
                   lightVars, pc, hp, filledSeats, mNumCreaturesControlled,
                   entitiesToDelete, deleted, phaseLog, turnLocals>>

RemoveCreatureCall ==
    /\ pc = "idle"
    /\ callsLeft > 0
    /\ callsLeft' = callsLeft - 1
    /\ \E c \in CreatureIds :
          LET i == IndexOf(creatures, c, 0)
          IN  /\ creatures' = EraseAt(creatures, i)
              /\ creaturesInCell' = IF i < Len(creatures)
                                       THEN TileRemoveCreature(creaturesInCell, c)
                                       ELSE creaturesInCell
              /\ animatedObjects' =
                    EraseAt(animatedObjects, IndexOf(animatedObjects, Animated(c), 0))
              /\ isOnMap' = isOnMap \ {c}
              /\ args' = [op |-> "removeCreature", creature |-> c]
    /\ UNCHANGED <<queryVars, mapVars, seatVars, staticObjectVars, sweepVars,
                   seatUpkeepVars, lookupVars, lockVars, frameVars, coveringRoom, goldInTile, modeVars,
                   lightVars, pc, hp, filledSeats, mNumCreaturesControlled,
                   entitiesToDelete, deleted, phaseLog, turnLocals>>

\* queueEntityForDeletion(ge), called for an entity taken off the map.
queueEntityForDeletion ==
    /\ pc = "idle"
    /\ \E ge \in OffMap : entitiesToDelete' = Append(entitiesToDelete, ge)
    /\ UNCHANGED <<gameVars, lightVars, mapVars, pc, args, openList, closedList,
                   returnList, existsResult, sightVars, creatures, creatureVars, hp, filledSeats,
                   mNumCreaturesControlled, deleted, phaseLog, turnLocals>>

\* Map lights that exist but are neither queued nor destroyed.
LiveMapLights == {ml \in MapLights :
                     ml \notin Elements(mapLightsToDelete) /\ ml \notin deletedMapLights}

\* queueMapLightForDeletion(ml), called for a map light taken off the map.
queueMapLightForDeletion ==
    /\ pc = "idle"
    /\ \E ml \in LiveMapLights : mapLightsToDelete' = Append(mapLightsToDelete, ml)
    /\ UNCHANGED <<gameVars, mapVars, pc, args, openList, closedList, returnList,
                   existsResult, sightVars, turnVars, deletedMapLights, deleteLog>>

\* The second loop of processDeletionQueues() left out.
drainMapLightsSkipped(queue, gone) == <<queue, gone>>

\* processDeletionQueues(): the loop that destroys the queued map lights;
\* gives the queue and the destroyed lights it leaves.
drainMapLights(queue, gone) == <<<<>>, gone \cup Elements(queue)>>

\* Does the queue hold an object more than once?
QueuedTwice(queue) == \E i, j \in 1 .. Len(queue) : i < j /\ queue[i] = queue[j]

\* processDeletionQueues(): every queued entity and every queued map light
\* is destroyed.  The delete of an object that was deleted before is
\* undefined: the process goes on or ends.
processDeletionQueues ==
    /\ pc = "idle"
    /\ deleteLog' = [entities |-> deleteLog.entities \o entitiesToDelete,
                     mapLights |-> deleteLog.mapLights \o mapLightsToDelete]
    /\ \/ pc' = pc
       \/ /\ QueuedTwice(entitiesToDelete) \/ QueuedTwice(mapLightsToDelete)
          /\ pc' = "exited"
    /\ deleted' = deleted \cup Elements(entitiesToDelete)
    /\ entitiesToDelete' = <<>>
    /\ mapLightsToDelete' = drainMapLights(mapLightsToDelete, deletedMapLights)[1]
    /\ deletedMapLights' = drainMapLights(mapLightsToDelete, deletedMapLights)[2]
    /\ phaseLog' = IF phaseLog # <<>> /\ phaseLog[Len(phaseLog)] = "deletionFlush"
                   THEN phaseLog
                   ELSE Append(phaseLog, "deletionFlush")
    /\ UNCHANGED <<gameVars, mapVars, args, openList, closedList, returnList,
                   existsResult, sightVars, creatures, creatureVars, hp, filledSeats,
                   mNumCreaturesControlled, turnLocals>>

\* queueEntityForDeletion(ge) for a creature that is not on the map, and
\* queueMapLightForDeletion(ml), by callers that do not look whether the
\* object is queued already.
QueueCall ==
    /\ pc = "idle"
    /\ callsLeft > 0
    /\ callsLeft' = callsLeft - 1
    /\ \/ /\ \E ge \in CreatureIds \ (Elements(creatures) \cup deleted) :
                entitiesToDelete' = Append(entitiesToDelete, ge)
          /\ UNCHANGED mapLightsToDelete
       \/ /\ \E ml \in MapLights \ deletedMapLights :
                mapLightsToDelete' = Append(mapLightsToDelete, ml)
          /\ UNCHANGED entitiesToDelete
    /\ UNCHANGED <<queryVars, mapVars, seatVars, upkeepVars, lookupVars, lockVars,
                   frameVars, coveringRoom, goldInTile, modeVars, pc, args, creatures, creatureVars, hp,
                   filledSeats, mNumCreaturesControlled, deleted, phaseLog,
                   turnLocals, deletedMapLights, deleteLog>>

\* Entry of doTurn() and of doCreatureTurns(): the creature count is read once.
doTurn ==
    /\ pc = "idle"
    /\ pc' = "creatureTurns"
    /\ args' = [op |-> "doTurn"]
    /\ turn' = [i |-> 0, numCreatures |-> Len(creatures)]
    /\ phaseLog' = <<>>
    /\ visited' = <<>>
    /\ turnStart' = [creatures |-> creatures, hp |-> hp]
    /\ UNCHANGED <<gameVars, lightVars, mapVars, openList, closedList, returnList,
                   existsResult, sightVars, creatures, creatureVars, hp, filledSeats,
                   mNumCreaturesControlled, entitiesToDelete, deleted>>

\* The loop condition with the creature count read anew each time.
creatureTurnsRemainingLive == turn.i < Len(creatures)

\* The loop condition of doCreatureTurns().
creatureTurnsRemaining == turn.i < turn.numCreatures

\* Creature::doTurn() of creature c: it may do nothing, strike a creature on
\* the map, or spawn a creature, which joins the end of the list.
CreatureAI(c) ==
    \/ UNCHANGED <<creatures, creatureVars, hp, animatedObjects>>
    \/ /\ hp[c] > 0
       /\ \E v \in Elements(creatures) :
             /\ hp[v] > 0
             /\ hp' = [hp EXCEPT ![v] = 0]
       /\ UNCHANGED <<creatures, creatureVars, animatedObjects>>
    \/ /\ hp[c] > 0
       /\ \E n \in OffMap :
             /\ creatures' = Append(creatures, n)
             /\ creaturesInCell' = TileAddCreature(creaturesInCell, n)
             /\ animatedObjects' = Append(animatedObjects, Animated(n))
             /\ isOnMap' = isOnMap \cup {n}
       /\ UNCHANGED hp

\* One pass through the loop of doCreatureTurns(): creatures[i]->doTurn().
CreatureTurn ==
    /\ pc = "creatureTurns"
    /\ creatureTurnsRemaining
    /\ CreatureAI(creatures[turn.i + 1])
    /\ visited' = Append(visited, creatures[turn.i + 1])
    /\ turn' = [turn EXCEPT !.i = turn.i + 1]
    /\ UNCHANGED <<gameVarsButAnimated, lightVars, mapVars, pc, args, openList,
                   closedList, returnList, existsResult, sightVars, filledSeats,
                   mNumCreaturesControlled, entitiesToDelete, deleted, phaseLog,
                   turnStart>>

\* One pass through the loop of doCreatureTurns() when the step of a
\* creature may call removeCreature() for itself or for another creature.
\* The loop runs to the creature count read at its start: when the list has
\* become shorter, creatures[i] is read beyond its end, and the step of
\* whatever the stale pointer refers to runs, or the process ends.
CreatureTurnRemoving ==
    /\ pc = "creatureTurns"
    /\ creatureTurnsRemaining
    /\ IF turn.i < Len(creatures)
       THEN /\ \/ UNCHANGED <<creatures, creatureVars, animatedObjects>>
               \/ \E c \in Elements(creatures) :
                     /\ creatures' = EraseAt(creatures, IndexOf(creatures, c, 0))
                     /\ creaturesInCell' = TileRemoveCreature(creaturesInCell, c)
                     /\ animatedObjects' =
                           EraseAt(animatedObjects,
                                   IndexOf(animatedObjects, Animated(c), 0))
                     /\ isOnMap' = isOnMap \ {c}
            /\ visited' = Append(visited, creatures[turn.i + 1])
            /\ turn' = [turn EXCEPT !.i = turn.i + 1]
            /\ pc' = pc
       ELSE /\ \/ /\ pc' = "exited"
                  /\ UNCHANGED <<visited, turn>>
               \/ /\ \E stale \in CreatureIds : visited' = Append(visited, stale)
                  /\ turn' = [turn EXCEPT !.i = turn.i + 1]
                  /\ pc' = pc
            /\ UNCHANGED <<creatures, creatureVars, animatedObjects>>
    /\ UNCHANGED <<gameVarsButAnimated, lightVars, mapVars, args, openList,
                   closedList, returnList, existsResult, sightVars, hp, filledSeats,
                   mNumCreaturesControlled, entitiesToDelete, deleted, phaseLog,
                   turnStart>>

\* doCreatureTurns() returns without going on to the upkeep.
doCreatureTurnsReturnsToSweep ==
    /\ pc = "creatureTurns"
    /\ ~creatureTurnsRemaining
    /\ pc' = "deadCreatureSweep"
    /\ phaseLog' = Append(phaseLog, "creatureTurns")
    /\ UNCHANGED <<gameVars, lightVars, mapVars, args, openList, closedList, returnList,
                   existsResult, sightVars, creatures, creatureVars, hp, filledSeats,
                   mNumCreaturesControlled, entitiesToDelete, deleted, turnLocals>>

\* doCreatureTurns() returns; doTurn() goes on to doMiscUpkeep().
doCreatureTurnsReturns ==
    /\ pc = "creatureTurns"
    /\ ~creatureTurnsRemaining
    /\ pc' = "miscUpkeep"
    /\ phaseLog' = Append(phaseLog, "creatureTurns")
    /\ UNCHANGED <<gameVars, lightVars, mapVars, args, openList, closedList, returnList,
                   existsResult, sightVars, creatures, creatureVars, hp, filledSeats,
                   mNumCreaturesControlled, entitiesToDelete, deleted, turnLocals>>

\* The counters left as they are.
resetCreatureCountsKept(counts) == counts

\* doMiscUpkeep(): the controlled-creature count of every filled seat is set
\* to 0.
resetCreatureCounts(counts) ==
    [s \in Colors |-> IF s \in Elements(filledSeats) THEN 0 ELSE counts[s]]

\* doMiscUpkeep(): the seats' counts are reset and a dungeon temple may
\* produce a creature.
doMiscUpkeep ==
    /\ pc = "miscUpkeep"
    /\ mNumCreaturesControlled' = resetCreatureCounts(mNumCreaturesControlled)
    /\ \/ UNCHANGED <<creatures, creatureVars, animatedObjects>>
       \/ \E n \in OffMap :
             /\ creatures' = Append(creatures, n)
             /\ creaturesInCell' = TileAddCreature(creaturesInCell, n)
             /\ animatedObjects' = Append(animatedObjects, Animated(n))
             /\ isOnMap' = isOnMap \cup {n}
    /\ pc' = "deadCreatureSweep"
    /\ phaseLog' = Append(phaseLog, "miscUpkeep")
    /\ UNCHANGED <<gameVarsButAnimated, lightVars, mapVars, args, openList, closedList,
                   returnList, existsResult, sightVars, hp, filledSeats,
                   entitiesToDelete, deleted, turnLocals>>

RECURSIVE SweepCount(_, _)
\* The last loop of doTurn() from creature cptCreature on: a living creature
\* with a controlling player adds one to the count of that player's seat.
SweepCount(counts, cptCreature) ==
    IF cptCreature >= Len(creatures) THEN counts
    ELSE LET tempCreature == creatures[cptCreature + 1]
             tempSeat == getControllingSeat(tempCreature)
         IN  IF hp[tempCreature] > 0 /\ tempSeat # NoSeat
             THEN SweepCount([counts EXCEPT ![tempSeat] = counts[tempSeat] + 1],
                             cptCreature + 1)
             ELSE SweepCount(counts, cptCreature + 1)

\* The last loop of doTurn(), after which doTurn() returns.
DeadCreatureSweep ==
    /\ pc = "deadCreatureSweep"
    /\ mNumCreaturesControlled' = SweepCount(mNumCreaturesControlled, 0)
    /\ pc' = "idle"
    /\ args' = NoArgs
    /\ phaseLog' = Append(phaseLog, "deadCreatureSweep")
    /\ UNCHANGED <<gameVars, lightVars, mapVars, openList, closedList, returnList,
                   existsResult, sightVars, creatures, creatureVars, hp, filledSeats,
                   entitiesToDelete, deleted, turnLocals>>

\* ------------------------------------------------------------- misc upkeep
\* The rooms, the trap and the missile object a level may hold when it is
\* loaded, in the order the loader adds them.
LevelTemples == <<Entity("dungeonTemple", 1, 1), Entity("dungeonTemple", 2, 1),
                  Entity("dungeonTemple", 2, 2)>>
LevelTreasuries == <<Entity("treasury", 1, 1), Entity("treasury", 1, 2),
                     Entity("treasury", 2, 1)>>
LevelObjects == <<Entity("quarters", 1, 1), Entity("treasury", 2, 1),
                  Entity("trap", 1, 1), Entity("missile", 1, 1)>>

\* What the upkeep of an object may bring into the game.
NewMissile == Entity("missile", 2, 2)
NewRoom == Entity("quarters", 2, 2)
NewTrap == Entity("trap", 2, 2)

RoomKinds == {"dungeonTemple", "treasury", "quarters"}
AllRooms == {e \in Elements(LevelTemples) \cup Elements(LevelTreasuries)
                    \cup Elements(LevelObjects) \cup {NewRoom} : e.kind \in RoomKinds}

\* The lists that keep some elements of list, in the order of list.
Sublists(list) == {SelectSeq(list, LAMBDA e : e \in S) : S \in SUBSET Elements(list)}

\* The lists that hold every element of S once.
Orderings(S) == {q \in [1 .. Cardinality(S) -> S] : Elements(q) = S}

\* The lists that hold some elements of S, none of them twice.
SeatLists(S) == UNION {Orderings(T) : T \in SUBSET S}

\* GameEntity::isActive(): rooms, traps and missile objects take part in the
\* upkeep round.
isActive(a) == a.kind \in RoomKinds \cup {"trap", "missile"}

\* CreatureDefinition::isWorker(): the first creature of a level is a
\* fighter, the others are kobolds.
isWorker(c) == c # 1

\* The treasuries of the levels and the gold they are loaded with.
Treasuries == {r \in AllRooms : r.kind = "treasury"}
FullTreasuries == [r \in Treasuries |-> 10 * r.id]

\* RoomTreasury::getTotalGold(): the gold stored in a treasury.
getTotalGold(r) == goldInTile[r]

\* The collections of objects of the game map, as one value.
Objects == [activeObjects |-> activeObjects, newActiveObjects |-> newActiveObjects,
            rooms |-> rooms, traps |-> traps, missileObjects |-> missileObjects,
            animatedObjects |-> animatedObjects,
            entitiesToDelete |-> entitiesToDelete]

\* GameEntity::deleteYourself(): the entity is handed to
\* queueEntityForDeletion().
deleteYourself(st, ge) == [st EXCEPT !.entitiesToDelete = Append(@, ge)]

\* addActiveObject(a).
addActiveObject(st, a) ==
    IF isActive(a) THEN [st EXCEPT !.activeObjects = Append(@, a)] ELSE st

\* removeActiveObject(a): the first occurrence is erased.
removeActiveObject(st, a) ==
    IF isActive(a)
    THEN [st EXCEPT !.activeObjects = EraseAt(@, IndexOf(@, a, 0))]
    ELSE st

\* addAnimatedObject(a).
addAnimatedObject(st, a) == [st EXCEPT !.animatedObjects = Append(@, a)]

\* addRoom(r).
addRoom(st, r) == addActiveObject([st EXCEPT !.rooms = Append(@, r)], r)

\* addTrap(t).
addTrap(st, t) == addActiveObject([st EXCEPT !.traps = Append(@, t)], t)

\* addMissileObject(m): the missile waits in newActiveObjects.
addMissileObject(st, m) ==
    addAnimatedObject([st EXCEPT !.missileObjects = Append(@, m),
                                 !.newActiveObjects = Append(@, m)], m)

\* removeRoom(r) that leaves the room in the active objects.
removeRoomKeepsActive(st, r) == [st EXCEPT !.rooms = EraseAt(@, IndexOf(@, r, 0))]

\* removeRoom(r).
removeRoom(st, r) ==
    LET s1 == removeActiveObject(st, r)
    IN  [s1 EXCEPT !.rooms = EraseAt(@, IndexOf(@, r, 0))]

\* getRoomsByType(type) and getRoomsByTypeAndColor(type, color).
getRoomsByType(list, type) == SelectSeq(list, LAMBDA r : r.kind = type)
getRoomsByTypeAndColor(list, type, color) ==
    SelectSeq(list, LAMBDA r : r.kind = type /\ r.color = color)

RECURSIVE SumGold(_, _)
\* The loop of getTotalGoldForColor() from treasury number i on.
SumGold(treasuriesOwned, i) ==
    IF i >= Len(treasuriesOwned) THEN 0
    ELSE getTotalGold(treasuriesOwned[i + 1]) + SumGold(treasuriesOwned, i + 1)

\* getTotalGoldForColor(color), over the rooms in list.
getTotalGoldForColor(list, color) ==
    SumGold(getRoomsByTypeAndColor(list, "treasury", color), 0)

\* getSeatByColor(color): a filled seat first, then an empty one.
getSeatByColor(color) ==
    IF color \in Elements(filledSeats) \/ color \in Elements(emptySeats)
    THEN color ELSE NoSeat

\* addWinningSeat(s) without the search for the seat.
addWinningSeatAgain(list, s) == Append(list, s)

\* addWinningSeat(s): a seat already in the list is not added again.
addWinningSeat(list, s) == IF s \in Elements(list) THEN list ELSE Append(list, s)

RECURSIVE CheckGoals(_, _)
\* The first loop of doMiscUpkeep() from seat number i on: a seat with no
\* unmet and no failed goal joins the winners.
CheckGoals(winners, i) ==
    IF i >= Len(filledSeats) THEN winners
    ELSE LET s == filledSeats[i + 1]
         IN  IF numUnmetGoals[s] = 0 /\ numFailedGoals[s] = 0
             THEN CheckGoals(addWinningSeat(winners, s), i + 1)
             ELSE CheckGoals(winners, i + 1)

\* doMiscUpkeep(): koboldColorCounts[color], the workers of a colour.
koboldColorCounts(color) ==
    Cardinality({i \in 1 .. Len(creatures) :
                    isWorker(creatures[i]) /\ getColor(creatures[i]) = color})

\* doMiscUpkeep(): dungeonTempleColorCounts[color].
dungeonTempleColorCounts(color) ==
    Len(getRoomsByTypeAndColor(rooms, "dungeonTemple", color))

Max(a, b) == IF a >= b THEN a ELSE b
Min(a, b) == IF a <= b THEN a ELSE b

\* doMiscUpkeep(): koboldsNeededPerColor[color] before the temples are asked.
koboldsNeeded(color) ==
    Min(Max(KoboldsPerTemple * dungeonTempleColorCounts(color)
                - koboldColorCounts(color), 0),
        dungeonTempleColorCounts(color))

\* The count of kobolds a colour needs left as it is.
koboldAskedForFree(needed, color) == needed

\* --koboldsNeededPerColor[color], for the kobold a temple was asked for.
koboldAskedFor(needed, color) == [needed EXCEPT ![color] = needed[color] - 1]

RECURSIVE ProduceKobolds(_, _, _)
\* The loop over the dungeon temples from temple number i on: a temple whose
\* colour still needs a kobold is told to produce one.
ProduceKobolds(dungeonTemples, needed, i) ==
    IF i >= Len(dungeonTemples) THEN <<>>
    ELSE LET dungeonTemple == dungeonTemples[i + 1]
             color == dungeonTemple.color
         IN  IF needed[color] > 0
             THEN <<dungeonTemple>>
                  \o ProduceKobolds(dungeonTemples, koboldAskedFor(needed, color),
                                    i + 1)
             ELSE ProduceKobolds(dungeonTemples, needed, i + 1)

\* doMiscUpkeep() up to the upkeep round of the active objects: the goals of
\* the seats are checked, the creature counts are reset, and the temples
\* produce the kobolds their colours lack.
doMiscUpkeepBegins ==
    /\ pc = "idle"
    /\ passesLeft > 0
    /\ pc' = "activeObjects"
    /\ args' = [op |-> "doMiscUpkeep"]
    /\ winningSeats' = CheckGoals(winningSeats, 0)
    /\ mNumCreaturesControlled' = resetCreatureCounts(mNumCreaturesControlled)
    /\ produceKoboldCalls' =
          ProduceKobolds(getRoomsByType(rooms, "dungeonTemple"),
                         [color \in Colors |-> koboldsNeeded(color)], 0)
    /\ activeObjectCount' = 0
    /\ sweepStart' = activeObjects
    /\ upkeepLog' = <<>>
    /\ finished' = {}
    /\ UNCHANGED <<lookupVars, lockVars, seatVars, worldVars, lightVars, mapVars, openList,
                   closedList, returnList, existsResult, sightVars, creatures, creatureVars, hp,
                   filledSeats, entitiesToDelete, deleted, phaseLog, turnLocals,
                   objectVars, numUnmetGoals, numFailedGoals, mMana, mGold,
                   mNumClaimedTiles, tileColor, passesLeft>>

\* GameEntity::doUpkeep() of an object: it may add a missile object, a room
\* or a trap to the game map.
DoUpkeep(st, made) ==
    CASE made = "none" -> st
      [] made = "missile" -> addMissileObject(st, NewMissile)
      [] made = "room" -> addRoom(st, NewRoom)
      [] made = "trap" -> addTrap(st, NewTrap)

\* What doUpkeep() can still add: every object enters the game once.
CanMake(made) ==
    \/ made = "none"
    \/ made = "missile" /\ NewMissile \notin Elements(missileObjects)
    \/ made = "room" /\ NewRoom \notin Elements(rooms)
    \/ made = "trap" /\ NewTrap \notin Elements(traps)

\* The sweep that moves on after erasing an object.
NextActiveObjectSkipping(count, alive) == count + 1

\* The index of the next object to visit: it stays when the object at it
\* was erased.
NextActiveObject(count, alive) == IF alive THEN count + 1 ELSE count

\* One pass through the loop over the active objects: the upkeep of the
\* object runs, and the object is erased when it returns false.
ActiveObjectUpkeep ==
    /\ pc = "activeObjects"
    /\ activeObjectCount < Len(activeObjects)
    /\ \E alive \in BOOLEAN, made \in {"none", "missile", "room", "trap"} :
          /\ CanMake(made)
          /\ LET ge == activeObjects[activeObjectCount + 1]
                 st == DoUpkeep(Objects, made)
             IN  /\ activeObjects' = IF alive THEN st.activeObjects
                                     ELSE EraseAt(st.activeObjects, activeObjectCount)
                 /\ newActiveObjects' = st.newActiveObjects
                 /\ rooms' = st.rooms
                 /\ traps' = st.traps
                 /\ missileObjects' = st.missileObjects
                 /\ animatedObjects' = st.animatedObjects
                 /\ upkeepLog' = Append(upkeepLog, ge)
                 /\ finished' = IF alive THEN finished ELSE finished \cup {ge}
                 /\ activeObjectCount' = NextActiveObject(activeObjectCount, alive)
    /\ UNCHANGED <<lookupVars, lockVars, seatVars, worldVars, lightVars, mapVars, pc, args,
                   openList, closedList, returnList, existsResult, sightVars, turnVars,
                   numCoveredTiles, sweepStart, seatUpkeepVars>>

\* The queued objects joining the active objects.
RECURSIVE AppendNewActiveObjects(_)
AppendNewActiveObjects(st) ==
    IF st.newActiveObjects = <<>> THEN st
    ELSE AppendNewActiveObjects(
             [st EXCEPT !.activeObjects = Append(@, Head(st.newActiveObjects)),
                        !.newActiveObjects = Tail(@)])

RECURSIVE RemoveEmptyRooms(_, _)
\* The loop over the rooms from room number i on: a room with no covered
\* tile is removed and deletes itself, and the decrement of i cancels the
\* increment that follows it, so the room that moved to place i is looked
\* at next.
RemoveEmptyRooms(st, i) ==
    IF i >= Len(st.rooms) THEN st
    ELSE LET tempRoom == st.rooms[i + 1]
         IN  IF numCoveredTiles[tempRoom] = 0
             THEN RemoveEmptyRooms(deleteYourself(removeRoom(st, tempRoom), tempRoom), i)
             ELSE RemoveEmptyRooms(st, i + 1)

\* The mana of a seat after the upkeep, without the cap.
SeatManaUncapped(s) == mMana[s] + ManaPerTurn + mNumClaimedTiles[s]

\* The mana of a seat after the upkeep.
SeatMana(s) ==
    IF mMana[s] + ManaPerTurn + mNumClaimedTiles[s] > MaxMana
    THEN MaxMana
    ELSE mMana[s] + ManaPerTurn + mNumClaimedTiles[s]

\* The last loops of doMiscUpkeep(): the claimed tiles of every seat are
\* counted anew over the whole map.
CountClaimedTiles(s) ==
    IF s \in Elements(filledSeats) \/ s \in Elements(emptySeats)
    THEN Cardinality({t \in Coords : tileKind[t] = "claimed"
                                      /\ getSeatByColor(tileColor[t]) = s})
    ELSE mNumClaimedTiles[s]

\* doMiscUpkeep() after the upkeep round of the active objects: the queued
\* objects join the active ones, the rooms without tiles are removed, and
\* mana, gold and claimed tiles of the seats are brought up to date.
doMiscUpkeepReturns ==
    /\ pc = "activeObjects"
    /\ activeObjectCount >= Len(activeObjects)
    /\ LET st == RemoveEmptyRooms(AppendNewActiveObjects(Objects), 0)
       IN  /\ activeObjects' = st.activeObjects
           /\ newActiveObjects' = st.newActiveObjects
           /\ rooms' = st.rooms
           /\ entitiesToDelete' = st.entitiesToDelete
           /\ mGold' = [s \in Colors |->
                           IF s \in Elements(filledSeats)
                           THEN getTotalGoldForColor(st.rooms, s) ELSE mGold[s]]
    /\ mMana' = [s \in Colors |->
                    IF s \in Elements(filledSeats) THEN SeatMana(s) ELSE mMana[s]]
    /\ mNumClaimedTiles' = [s \in Colors |-> CountClaimedTiles(s)]
    /\ passesLeft' = passesLeft - 1
    /\ pc' = "done"
    /\ UNCHANGED <<lookupVars, lockVars, seatVars, worldVars, lightVars, mapVars, openList,
                   closedList, returnList, existsResult, args, sightVars, creatures, creatureVars, hp,
                   filledSeats, mNumCreaturesControlled, deleted, phaseLog, turnLocals,
                   traps, missileObjects, animatedObjects, numCoveredTiles, sweepVars,
                   produceKoboldCalls, winningSeats, numUnmetGoals, numFailedGoals,
                   tileColor>>

\* RoomTreasury::withdrawGold(gold): the treasury gives what it has, up to
\* gold, and returns the amount given.
withdrawGold(held, gold) == Min(held, gold)

RECURSIVE WithdrawLoop(_, _, _, _)
\* The loop of withdrawFromTreasuries() from treasury number i on; held is
\* the gold of every treasury.
WithdrawLoop(held, treasuriesOwned, i, goldStillNeeded) ==
    IF i < Len(treasuriesOwned) /\ goldStillNeeded > 0
    THEN LET r == treasuriesOwned[i + 1]
             taken == withdrawGold(held[r], goldStillNeeded)
         IN  WithdrawLoop([held EXCEPT ![r] = @ - taken], treasuriesOwned, i + 1,
                          goldStillNeeded - taken)
    ELSE held

\* Amounts of gold asked of the treasuries.
WithdrawAmounts == {0, 5, 10, 30}

\* withdrawFromTreasuries(gold, seat), for a filled seat.
withdrawFromTreasuries ==
    /\ pc = "idle"
    /\ callsLeft > 0
    /\ callsLeft' = callsLeft - 1
    /\ \E gold \in WithdrawAmounts, seat \in Elements(filledSeats) :
          IF mGold[seat] < gold
          THEN /\ args' = [op |-> "withdrawFromTreasuries", gold |-> gold,
                           seat |-> seat, returned |-> FALSE]
               /\ UNCHANGED goldInTile
          ELSE /\ args' = [op |-> "withdrawFromTreasuries", gold |-> gold,
                           seat |-> seat, returned |-> TRUE]
               /\ goldInTile' =
                     WithdrawLoop(goldInTile,
                                  getRoomsByTypeAndColor(rooms, "treasury", seat),
                                  0, gold)
    /\ UNCHANGED <<queryVars, mapVars, turnVars, lightVars, seatVars, upkeepVars,
                   lookupVars, lockVars, frameVars, coveringRoom, modeVars, pc>>

\* ------------------------------------------------------ application modes
\* ModeManager::ModeType: the modes of modesArray.
ModeTypes == {"MENU", "GAME", "EDITOR"}

\* A push that overwrites the top of a stack that has one.
pushOverTop(stack, mm) ==
    IF stack = <<>> THEN <<mm>> ELSE [stack EXCEPT ![Len(stack)] = mm]

\* std::stack push, pop and top on a list whose last element is the top.
push(stack, mm) == Append(stack, mm)
pop(stack) == SubSeq(stack, 1, Len(stack) - 1)
top(stack) == stack[Len(stack)]

\* The constructor: the menu mode is pushed and given the focus.
ModeManager ==
    /\ modesStack = push(<<>>, "MENU")
    /\ focus = "MENU"

\* getCurrentMode().
getCurrentMode == top(modesStack)

\* progressMode(mm): the mode is pushed and given the focus.
progressMode ==
    /\ pc = "idle"
    /\ Len(modesStack) < MaxModeDepth
    /\ \E mm \in ModeTypes :
          /\ modesStack' = push(modesStack, mm)
          /\ args' = [op |-> "progressMode", mode |-> mm, before |-> modesStack]
    /\ focus' = top(modesStack')
    /\ UNCHANGED <<queryVars, mapVars, turnVars, lightVars, seatVars, upkeepVars,
                   lookupVars, lockVars, frameVars, coveringRoom, goldInTile,
                   callsLeft, pc>>

\* regressMode(): above the first mode the top is popped and the mode below
\* is given the focus; the first mode stays.
regressMode ==
    /\ pc = "idle"
    /\ IF Len(modesStack) > 1
       THEN /\ modesStack' = pop(modesStack)
            /\ focus' = top(modesStack')
       ELSE UNCHANGED modeVars
    /\ args' = [op |-> "regressMode", mode |-> top(modesStack'), before |-> modesStack]
    /\ UNCHANGED <<queryVars, mapVars, turnVars, lightVars, seatVars, upkeepVars,
                   lookupVars, lockVars, frameVars, coveringRoom, goldInTile,
                   callsLeft, pc>>

\* ------------------------------------------- rooms, traps, missile objects
\* removeAnimatedObject(a): the first occurrence is erased.
removeAnimatedObject(st, a) ==
    [st EXCEPT !.animatedObjects = EraseAt(@, IndexOf(@, a, 0))]

\* removeTrap(t): the trap leaves the active objects and, when it is in the
\* list of traps, deletes itself and leaves the list.
removeTrap(st, t) ==
    LET s1 == removeActiveObject(st, t)
        i == IndexOf(s1.traps, t, 0)
    IN  IF i < Len(s1.traps)
        THEN [deleteYourself(s1, t) EXCEPT !.traps = EraseAt(@, i)]
        ELSE s1

\* removeMissileObject(m): the missile leaves the active objects, the
\* missile objects and the animated objects.
removeMissileObject(st, m) ==
    LET s1 == removeActiveObject(st, m)
        s2 == [s1 EXCEPT !.missileObjects = EraseAt(@, IndexOf(@, m, 0))]
    IN  removeAnimatedObject(s2, m)

RECURSIVE clearCreatures(_, _)
\* clearCreatures(), from creature number ii on.
clearCreatures(st, ii) ==
    IF ii >= Len(creatures) THEN st
    ELSE clearCreatures(deleteYourself(removeAnimatedObject(st, Animated(creatures[ii + 1])),
                                       creatures[ii + 1]), ii + 1)

RECURSIVE clearTraps(_, _)
\* clearTraps(), from trap number i on; the list is emptied by the caller.
clearTraps(st, i) ==
    IF i >= Len(st.traps) THEN [st EXCEPT !.traps = <<>>]
    ELSE clearTraps(deleteYourself(removeActiveObject(st, st.traps[i + 1]),
                                   st.traps[i + 1]), i + 1)

RECURSIVE clearMissileObjects(_, _)
\* clearMissileObjects(), from missile number i on.
clearMissileObjects(st, i) ==
    IF i >= Len(st.missileObjects) THEN [st EXCEPT !.missileObjects = <<>>]
    ELSE LET mo == st.missileObjects[i + 1]
         IN  clearMissileObjects(
                 deleteYourself(removeAnimatedObject(removeActiveObject(st, mo), mo), mo),
                 i + 1)

RECURSIVE clearRooms(_, _)
\* clearRooms(), from room number i on.
clearRooms(st, i) ==
    IF i >= Len(st.rooms) THEN [st EXCEPT !.rooms = <<>>]
    ELSE clearRooms(deleteYourself(removeActiveObject(st, st.rooms[i + 1]),
                                   st.rooms[i + 1]), i + 1)

\* The collections of objects after clearAll().
ClearedObjects ==
    clearRooms(clearMissileObjects(clearTraps(clearCreatures(Objects, 0), 0), 0), 0)

\* The room and the missile object of a small level, which a caller may
\* hand to the game map and take from it again.
SmallLevel == <<Entity("quarters", 1, 1), Entity("missile", 1, 1)>>
Placeable == Elements(SmallLevel)

\* A call of addRoom(r), addTrap(t) or addMissileObject(m) for an object
\* that is not in the game yet.
AddObjectCall ==
    /\ pc = "idle"
    /\ callsLeft > 0
    /\ callsLeft' = callsLeft - 1
    /\ \E a \in Placeable :
          /\ a \notin Elements(rooms) \cup Elements(traps) \cup Elements(missileObjects)
          /\ a \notin Elements(entitiesToDelete) /\ a \notin deleted
          /\ LET st == CASE a.kind = "trap" -> addTrap(Objects, a)
                         [] a.kind = "missile" -> addMissileObject(Objects, a)
                         [] OTHER -> addRoom(Objects, a)
             IN  /\ args' = [op |-> "add", entity |-> a]
                 /\ activeObjects' = st.activeObjects
                 /\ newActiveObjects' = st.newActiveObjects
                 /\ rooms' = st.rooms
                 /\ traps' = st.traps
                 /\ missileObjects' = st.missileObjects
                 /\ animatedObjects' = st.animatedObjects
    /\ UNCHANGED <<queryVars, mapVars, turnVars, lightVars, seatVars, lookupVars,
                   lockVars, frameVars, coveringRoom, goldInTile, modeVars, pc, numCoveredTiles,
                   sweepVars, seatUpkeepVars>>

\* A call of removeRoom(r), removeTrap(t) or removeMissileObject(m) for an
\* object of the game.
RemoveObjectCall ==
    /\ pc = "idle"
    /\ callsLeft > 0
    /\ callsLeft' = callsLeft - 1
    /\ \E a \in Elements(rooms) \cup Elements(traps) \cup Elements(missileObjects) :
          LET st == CASE a.kind = "trap" -> removeTrap(Objects, a)
                      [] a.kind = "missile" -> removeMissileObject(Objects, a)
                      [] OTHER -> removeRoom(Objects, a)
          IN  /\ args' = [op |-> "remove", entity |-> a]
              /\ activeObjects' = st.activeObjects
              /\ newActiveObjects' = st.newActiveObjects
              /\ rooms' = st.rooms
              /\ traps' = st.traps
              /\ missileObjects' = st.missileObjects
              /\ animatedObjects' = st.animatedObjects
              /\ entitiesToDelete' = st.entitiesToDelete
    /\ UNCHANGED <<queryVars, mapVars, lightVars, seatVars, lookupVars, lockVars,
                   frameVars, coveringRoom, goldInTile, modeVars, pc, numCoveredTiles, sweepVars,
                   seatUpkeepVars,
                   creatures, creatureVars, hp, filledSeats, mNumCreaturesControlled, deleted,
                   phaseLog, turnLocals>>

\* clearAll(): creatures, traps, missile objects, map lights and rooms leave
\* the game map and delete themselves, the tiles are destroyed, the goals,
\* seats and players go, and the turn number and the unique numbers are set
\* back.
clearAll ==
    /\ pc = "idle"
    /\ callsLeft > 0
    /\ callsLeft' = callsLeft - 1
    /\ args' = [op |-> "clearAll"]
    /\ LET st == ClearedObjects
       IN  /\ activeObjects' = st.activeObjects
           /\ newActiveObjects' = st.newActiveObjects
           /\ rooms' = st.rooms
           /\ traps' = st.traps
           /\ missileObjects' = st.missileObjects
           /\ animatedObjects' = st.animatedObjects
           /\ entitiesToDelete' = st.entitiesToDelete
    /\ creatures' = <<>>
    /\ mapLightsToDelete' = mapLightsToDelete \o mapLights
    /\ mapLights' = <<>>
    /\ coveringRoom' = [t \in Coords |-> NoEntity]
    /\ tileKind' = [t \in Coords |-> "ground"]
    /\ floodFillColor' = [t \in Coords |-> -1]
    /\ tileColor' = [t \in Coords |-> 1]
    /\ numUnmetGoals' = [s \in Colors |-> 0]
    /\ numFailedGoals' = [s \in Colors |-> 0]
    /\ emptySeats' = <<>>
    /\ localPlayerSeat' = NoSeat
    /\ players' = <<>>
    /\ filledSeats' = <<>>
    /\ mTurnNumber' = -1
    /\ mUniqueNumberFloodFilling' = 0
    /\ UNCHANGED <<queryVars, lockVars, pc, floodFillEnabled, creatureVars, hp,
                   mNumCreaturesControlled, deleted, phaseLog, turnLocals,
                   deletedMapLights, deleteLog, popped, numCoveredTiles, sweepVars,
                   goldInTile, modeVars,
                   produceKoboldCalls, winningSeats, mMana, mGold, mNumClaimedTiles,
                   passesLeft, found, mIsServerGameMap, mIsPaused, indicators,
                   meshes, frameLog>>

\* --------------------------------------------------------------- seat pools
\* popEmptySeat() that leaves the seat in the empty pool.
popEmptySeatCopies(list, i) == list

\* popEmptySeat(): the empty pool after the seat at place i was taken.
popEmptySeatErases(list, i) == EraseAt(list, i)

\* popEmptySeat(color): the first empty seat of the colour moves to the end
\* of the filled seats and is returned; NULL when there is none.
popEmptySeat ==
    /\ pc = "idle"
    /\ \E color \in SeatColors :
          LET i == IndexOf(emptySeats, color, 0)
          IN  /\ args' = [op |-> "popEmptySeat", color |-> color]
              /\ IF i < Len(emptySeats)
                 THEN /\ emptySeats' = popEmptySeatErases(emptySeats, i)
                      /\ filledSeats' = Append(filledSeats, emptySeats[i + 1])
                      /\ popped' = emptySeats[i + 1]
                 ELSE /\ popped' = NoSeat
                      /\ UNCHANGED <<emptySeats, filledSeats>>
    /\ UNCHANGED <<upkeepVars, lookupVars, lockVars, worldVars, lightVars, mapVars, pc,
                   openList, closedList, returnList, existsResult, sightVars,
                   creatures, creatureVars, hp, mNumCreaturesControlled, entitiesToDelete,
                   deleted, phaseLog, turnLocals>>

\* popFilledSeat(): the first filled seat moves to the end of the empty
\* seats and is returned; NULL when no seat is filled.
popFilledSeat ==
    /\ pc = "idle"
    /\ args' = [op |-> "popFilledSeat", color |-> NoSeat]
    /\ IF filledSeats # <<>>
       THEN /\ filledSeats' = Tail(filledSeats)
            /\ emptySeats' = Append(emptySeats, filledSeats[1])
            /\ popped' = filledSeats[1]
       ELSE /\ popped' = NoSeat
            /\ UNCHANGED <<emptySeats, filledSeats>>
    /\ UNCHANGED <<upkeepVars, lookupVars, lockVars, worldVars, lightVars, mapVars, pc,
                   openList, closedList, returnList, existsResult, sightVars,
                   creatures, creatureVars, hp, mNumCreaturesControlled, entitiesToDelete,
                   deleted, phaseLog, turnLocals>>

\* ------------------------------------------------------------------ lookups
LookupKinds ==
    {"creature", "animatedObject", "room", "missileObject", "mapLight", "player"}

\* The players a level may have.
LevelPlayers == {Entity("player", c, c) : c \in Colors}

\* The vector a lookup of a kind of entity goes through.
Collection(kind) ==
    CASE kind = "creature" -> [i \in 1 .. Len(creatures) |-> Animated(creatures[i])]
      [] kind = "animatedObject" -> animatedObjects
      [] kind = "room" -> rooms
      [] kind = "missileObject" -> missileObjects
      [] kind = "mapLight" -> mapLights
      [] kind = "player" -> players

\* getName() of an entity and getNick() of a player.
getName(e) == <<e.kind, e.id>>

\* The names a caller may ask for: those of the entities of a level and one
\* that no entity has.
LookupNames ==
    {getName(e) : e \in {Animated(c) : c \in CreatureIds} \cup AllRooms
                          \cup Elements(LevelObjects) \cup MapLights \cup LevelPlayers}
        \cup {<<"nobody", 0>>}

\* The places a caller may ask for: those of the longest vector, one before
\* the first and one behind the last.
LookupIndices == -1 .. MaxCreatures + 1

\* What ends the process instead of giving a pointer.
Crash == Entity("crash", 0, 0)

\* vector[index] as getCreature(index), getAnimatedObject(index),
\* getRoom(index), getMissileObject(index), getMapLight(index) and
\* getPlayer(index) read it, with no check of the index: the element at the
\* place when there is one; outside the vector the read is undefined and
\* may give NULL, a pointer to no entity, or end the process.
VectorAt(list, index) ==
    IF 0 <= index /\ index < Len(list)
    THEN {list[index + 1]}
    ELSE {NoEntity, Garbage, Crash}

RECURSIVE FindByName(_, _, _)
\* The loop of getCreature(name), getAnimatedObject(name),
\* getRoomByName(name), getMissileObject(name), getMapLight(name) and
\* getPlayer(name) from place i on: the first entity of that name, NULL when
\* the end is reached.
FindByName(list, name, i) ==
    IF i >= Len(list) THEN NoEntity
    ELSE IF getName(list[i + 1]) = name THEN list[i + 1]
         ELSE FindByName(list, name, i + 1)

\* A lookup by index.
LookupByIndex ==
    /\ pc = "idle"
    /\ \E kind \in LookupKinds, index \in LookupIndices :
          /\ args' = [op |-> "getByIndex", kind |-> kind, index |-> index,
                      name |-> <<"nobody", 0>>]
          /\ \E r \in VectorAt(Collection(kind), index) :
                IF r = Crash
                THEN pc' = "exited" /\ found' = found
                ELSE pc' = pc /\ found' = r
    /\ UNCHANGED <<seatVars, upkeepVars, lockVars, worldVars, lightVars, mapVars, openList,
                   closedList, returnList, existsResult, sightVars, turnVars,
                   mapLights, players>>

\* A lookup by name.
LookupByName ==
    /\ pc = "idle"
    /\ \E kind \in LookupKinds, name \in LookupNames :
          /\ args' = [op |-> "getByName", kind |-> kind, index |-> 0, name |-> name]
          /\ found' = FindByName(Collection(kind), name, 0)
    /\ UNCHANGED <<seatVars, upkeepVars, lockVars, worldVars, lightVars, mapVars, pc, openList,
                   closedList, returnList, existsResult, sightVars, turnVars,
                   mapLights, players>>

\* ------------------------------------------------ field locks of a creature
Fields == {"hp", "mana", "isOnMap"}
Threads == {"turn", "render"}
FieldValues == 0 .. 1
Idle == [state |-> "idle", field |-> "none", op |-> "none", value |-> 0]

\* One semaphore for the whole creature.
lockOfCreature(field) == "hp"

\* The semaphore that guards a field: hpLockSemaphore, manaLockSemaphore or
\* isOnMapLockSemaphore.
lockOf(field) == field

\* A thread calls getHP(), setHP(), getMana(), setMana(), getIsOnMap() or
\* setIsOnMap().
AccessorCall ==
    /\ pc = "idle"
    /\ \E t \in Threads, field \in Fields, op \in {"get", "set"},
          value \in FieldValues :
          /\ thread[t].state = "idle"
          /\ op = "get" => value = 0
          /\ thread' = [thread EXCEPT ![t] = [state |-> "waiting", field |-> field,
                                              op |-> op, value |-> value]]
    /\ UNCHANGED <<seatVars, upkeepVars, lookupVars, worldVars, lightVars, mapVars, pc, args,
                   openList, closedList, returnList, existsResult, sightVars,
                   turnVars, semaphore, cell>>

\* sem_wait() on the semaphore of the field.
SemWait ==
    /\ \E t \in Threads :
          /\ thread[t].state = "waiting"
          /\ semaphore[lockOf(thread[t].field)] > 0
          /\ semaphore' = [semaphore EXCEPT ![lockOf(thread[t].field)] = @ - 1]
          /\ thread' = [thread EXCEPT ![t].state = "inside"]
    /\ UNCHANGED <<seatVars, upkeepVars, lookupVars, worldVars, lightVars, mapVars, pc, args,
                   openList, closedList, returnList, existsResult, sightVars,
                   turnVars, cell>>

\* The field is read or written.
FieldAccess ==
    /\ \E t \in Threads :
          /\ thread[t].state = "inside"
          /\ cell' = IF thread[t].op = "set"
                     THEN [cell EXCEPT ![thread[t].field] = thread[t].value]
                     ELSE cell
          /\ thread' = [thread EXCEPT ![t].state = "leaving",
                                      ![t].value = IF thread[t].op = "get"
                                                   THEN cell[thread[t].field]
                                                   ELSE thread[t].value]
    /\ UNCHANGED <<seatVars, upkeepVars, lookupVars, worldVars, lightVars, mapVars, pc, args,
                   openList, closedList, returnList, existsResult, sightVars,
                   turnVars, semaphore>>

\* sem_post() on the semaphore of the field, and the accessor returns.
SemPost ==
    /\ \E t \in Threads :
          /\ thread[t].state = "leaving"
          /\ semaphore' = [semaphore EXCEPT ![lockOf(thread[t].field)] = @ + 1]
          /\ thread' = [thread EXCEPT ![t] = Idle]
    /\ UNCHANGED <<seatVars, upkeepVars, lookupVars, worldVars, lightVars, mapVars, pc, args,
                   openList, closedList, returnList, existsResult, sightVars,
                   turnVars, cell>>

\* --------------------------------------------------------- animation frame
\* The meshes of the tiles of the map, as one scene entity.
TileMeshes == Entity("tiles", 0, 0)

\* setGamePaused(paused).
setGamePaused ==
    /\ pc = "idle"
    /\ \E paused \in BOOLEAN :
          /\ args' = [op |-> "setGamePaused"]
          /\ mIsPaused' = paused
    /\ UNCHANGED <<queryVars, mapVars, turnVars, lightVars, seatVars, upkeepVars,
                   lookupVars, lockVars, pc, mIsServerGameMap, mTurnNumber,
                   localPlayerSeat, indicators, meshes, frameLog, coveringRoom, goldInTile, modeVars, callsLeft>>

\* setTurnNumber(): the next turn of the game begins.
setTurnNumber ==
    /\ pc = "idle"
    /\ mTurnNumber < MaxTurns
    /\ args' = [op |-> "setTurnNumber"]
    /\ mTurnNumber' = mTurnNumber + 1
    /\ UNCHANGED <<queryVars, mapVars, turnVars, lightVars, seatVars, upkeepVars,
                   lookupVars, lockVars, pc, mIsServerGameMap, mIsPaused,
                   localPlayerSeat, indicators, meshes, frameLog, coveringRoom, goldInTile, modeVars, callsLeft>>

\* clearMapLightIndicators(): the indicator of every map light is destroyed.
clearMapLightIndicators(shown) == shown \ Elements(mapLights)

\* createAllEntities(): meshes for the tiles, the creatures, the map lights,
\* the rooms and the traps.
createAllEntities(made) ==
    made \cup {TileMeshes} \cup {Animated(creatures[i]) : i \in 1 .. Len(creatures)}
         \cup Elements(mapLights) \cup Elements(rooms) \cup Elements(traps)

\* updateAnimations(timeSinceLastFrame).  In the first turn of a client the
\* game is set up; exit(1) when the local player has no seat.
updateAnimations ==
    /\ pc = "idle"
    /\ args' = [op |-> "updateAnimations"]
    /\ IF ~mIsServerGameMap /\ mTurnNumber = 0
       THEN /\ mIsPaused' = FALSE
            /\ indicators' = clearMapLightIndicators(indicators)
            /\ IF localPlayerSeat = NoSeat
               THEN pc' = "exited" /\ meshes' = meshes
               ELSE pc' = pc /\ meshes' = createAllEntities(meshes)
       ELSE /\ pc' = pc
            /\ UNCHANGED <<mIsPaused, indicators, meshes>>
    /\ frameLog' = IF pc' = "exited" THEN frameLog
                   ELSE IF mIsPaused' THEN {}
                   ELSE Elements(animatedObjects)
                          \cup (IF mIsServerGameMap THEN {} ELSE Elements(mapLights))
    /\ UNCHANGED <<queryVars, mapVars, turnVars, lightVars, seatVars, upkeepVars,
                   lookupVars, lockVars, mIsServerGameMap, mTurnNumber,
                   localPlayerSeat, coveringRoom, goldInTile, modeVars, callsLeft>>

\* ------------------------------------------------------------ specification
\* A loaded level: any arrangement of at most MaxObstacles non-ground tiles;
\* no tile has a flood-fill colour yet.
\* No call is running and none has returned anything.
NoCall ==
    /\ pc = "idle"
    /\ args = NoArgs
    /\ openList = <<>>
    /\ closedList = <<>>
    /\ returnList = <<>>
    /\ existsResult = FALSE
    /\ los = NoLos
    /\ isClear = FALSE

\* No creature, seat or queued entity: the map alone.
NoGame ==
    /\ creatures = <<>>
    /\ CreaturesPlaced
    /\ hp = [c \in CreatureIds |-> 1]
    /\ filledSeats = <<>>
    /\ mNumCreaturesControlled = [s \in Colors |-> 0]
    /\ entitiesToDelete = <<>>
    /\ deleted = {}
    /\ turn = NoTurn
    /\ phaseLog = <<>>
    /\ visited = <<>>
    /\ turnStart = NoTurnStart

\* No map light is queued or destroyed.
NoLights ==
    /\ mapLightsToDelete = <<>>
    /\ deletedMapLights = {}
    /\ deleteLog = NoDeletes

\* No upkeep sweep has run.
NoSweep ==
    /\ newActiveObjects = <<>>
    /\ activeObjectCount = 0
    /\ sweepStart = <<>>
    /\ upkeepLog = <<>>
    /\ finished = {}
    /\ produceKoboldCalls = <<>>
    /\ winningSeats = <<>>

\* No room, trap or missile object is in the game.
NoObjects ==
    /\ activeObjects = <<>>
    /\ rooms = <<>>
    /\ traps = <<>>
    /\ missileObjects = <<>>
    /\ animatedObjects = <<>>
    /\ numCoveredTiles = [r \in AllRooms |-> 1]

\* No seat has a goal, mana, gold or a claimed tile.
NoSeatUpkeep ==
    /\ numUnmetGoals = [s \in Colors |-> 0]
    /\ numFailedGoals = [s \in Colors |-> 0]
    /\ mMana = [s \in Colors |-> 0]
    /\ mGold = [s \in Colors |-> 0]
    /\ mNumClaimedTiles = [s \in Colors |-> 0]
    /\ tileColor = [t \in Coords |-> 1]

\* No map light or player is in the game and no lookup was made.
NoLookup ==
    /\ mapLights = <<>>
    /\ players = <<>>
    /\ found = NoEntity

\* No thread is in an accessor of the creature.
NoThreads ==
    /\ semaphore = [f \in Fields |-> 1]
    /\ thread = [t \in Threads |-> Idle]
    /\ cell = [f \in Fields |-> 0]

\* The game map of a client before its game starts: no frame was drawn.
NoFrame ==
    /\ mIsServerGameMap = FALSE
    /\ mTurnNumber = -1
    /\ mIsPaused = FALSE
    /\ localPlayerSeat = NoSeat
    /\ indicators = {}
    /\ meshes = {}
    /\ frameLog = {}

\* The parts of the game that stand apart from the turn are as constructed.
NoWorld ==
    /\ NoFrame
    /\ coveringRoom = [t \in Coords |-> NoEntity]
    /\ goldInTile = FullTreasuries
    /\ ModeManager
    /\ callsLeft = 0

\* Nothing but the map, the creatures and the filled seats.
NoUpkeep ==
    /\ NoWorld
    /\ emptySeats = <<>>
    /\ popped = NoSeat
    /\ NoSweep
    /\ NoObjects
    /\ NoSeatUpkeep
    /\ NoLookup
    /\ NoThreads
    /\ passesLeft = 0

Init ==
    /\ tileKind \in {k \in [Coords -> TileKinds] :
                        Cardinality({t \in Coords : k[t] # "ground"}) <= MaxObstacles}
    /\ floodFillColor = [t \in Coords |-> -1]
    /\ floodFillEnabled = FALSE
    /\ mUniqueNumberFloodFilling = 0
    /\ NoCall
    /\ NoGame
    /\ NoLights
    /\ NoUpkeep

Next ==
    \/ enableFloodFill
    \/ PathCall
    \/ SearchExpand
    \/ SearchExhausted
    \/ PathReturn
    \/ PathExistsCall
    \/ CallerResumes

Spec == Init /\ [][Next]_vars

\* The tracing, clearance and visibility queries on a loaded level.
SightNext ==
    \/ LineOfSightCall
    \/ LineOfSightStep
    \/ LineOfSightReturn
    \/ PathIsClearCall
    \/ CutCornersCall
    \/ VisibleTilesCall
    \/ CallerResumes

\* A loaded level with at most MaxSightObstacles tiles that are not ground.
SightInit ==
    /\ tileKind \in {k \in [Coords -> TileKinds] :
                        Cardinality({t \in Coords : k[t] # "ground"})
                            <= MaxSightObstacles}
    /\ floodFillColor = [t \in Coords |-> -1]
    /\ floodFillEnabled = FALSE
    /\ mUniqueNumberFloodFilling = 0
    /\ NoCall
    /\ NoGame
    /\ NoLights
    /\ NoUpkeep

SightSpec == SightInit /\ [][SightNext]_vars

\* A game on open ground: any health for the creatures of the level, any
\* set of filled seats; no creature is on the map yet.
TurnInit ==
    /\ tileKind = [t \in Coords |-> "ground"]
    /\ floodFillColor = [t \in Coords |-> -1]
    /\ floodFillEnabled = FALSE
    /\ mUniqueNumberFloodFilling = 0
    /\ NoCall
    /\ creatures = <<>>
    /\ CreaturesPlaced
    /\ hp \in [CreatureIds -> HitPoints]
    /\ filledSeats \in SeatLists(Colors)
    /\ mNumCreaturesControlled = [s \in Colors |-> 0]
    /\ entitiesToDelete = <<>>
    /\ deleted = {}
    /\ turn = NoTurn
    /\ phaseLog = <<>>
    /\ visited = <<>>
    /\ turnStart = NoTurnStart
    /\ NoLights
    /\ NoUpkeep

TurnNext ==
    \/ addCreature
    \/ removeCreature
    \/ queueEntityForDeletion
    \/ queueMapLightForDeletion
    \/ processDeletionQueues
    \/ doTurn
    \/ CreatureTurn
    \/ doCreatureTurnsReturns
    \/ doMiscUpkeep
    \/ DeadCreatureSweep

TurnSpec == TurnInit /\ [][TurnNext]_vars

\* The parts of a game that the upkeep does not look at.
NoTurnRunning ==
    /\ floodFillColor = [t \in Coords |-> -1]
    /\ floodFillEnabled = FALSE
    /\ mUniqueNumberFloodFilling = 0
    /\ NoCall
    /\ NoLights
    /\ hp = [c \in CreatureIds |-> 1]
    /\ mNumCreaturesControlled = [s \in Colors |-> 0]
    /\ entitiesToDelete = <<>>
    /\ deleted = {}
    /\ turn = NoTurn
    /\ phaseLog = <<>>
    /\ visited = <<>>
    /\ turnStart = NoTurnStart
    /\ popped = NoSeat
    /\ NoSweep

\* A level with some of the rooms, the trap and the missile object of
\* LevelObjects; any of its rooms, and the room an upkeep may add, may be
\* without tiles.  It is followed through one upkeep.
ObjectsLevel ==
    /\ tileKind = [t \in Coords |-> "ground"]
    /\ creatures = <<>>
    /\ CreaturesPlaced
    /\ filledSeats = <<>>
    /\ emptySeats = <<>>
    /\ NoSeatUpkeep
    /\ \E objs \in Sublists(LevelObjects) :
          /\ activeObjects = objs
          /\ rooms = SelectSeq(objs, LAMBDA e : e.kind \in RoomKinds)
          /\ traps = SelectSeq(objs, LAMBDA e : e.kind = "trap")
          /\ missileObjects = SelectSeq(objs, LAMBDA e : e.kind = "missile")
          /\ animatedObjects = SelectSeq(objs, LAMBDA e : e.kind = "missile")
          /\ numCoveredTiles \in
                {n \in [AllRooms -> 0 .. 1] :
                    \A r \in AllRooms :
                       r \notin Elements(objs) \cup {NewRoom} => n[r] = 1}
    /\ passesLeft = 1

\* A level with some of the dungeon temples and up to MaxKobolds creatures,
\* followed through one upkeep.
TemplesLevel ==
    /\ tileKind = [t \in Coords |-> "ground"]
    /\ \E n \in 0 .. MaxKobolds :
          /\ creatures = [i \in 1 .. n |-> i]
          /\ CreaturesPlaced
          /\ animatedObjects = [i \in 1 .. n |-> Animated(i)]
    /\ filledSeats = <<>>
    /\ emptySeats = <<>>
    /\ NoSeatUpkeep
    /\ rooms \in Sublists(LevelTemples)
    /\ activeObjects = rooms
    /\ traps = <<>>
    /\ missileObjects = <<>>
    /\ numCoveredTiles = [r \in AllRooms |-> 1]
    /\ passesLeft = 1

\* The seats of the two colours, each one filled or empty.
SeatsOfLevel ==
    /\ filledSeats \in SeatLists(Colors)
    /\ emptySeats \in Orderings(Colors \ Elements(filledSeats))

\* A level without rooms whose seats have any goals met, unmet or failed,
\* followed through MaxTurns upkeeps.
GoalsLevel ==
    /\ tileKind = [t \in Coords |-> "ground"]
    /\ creatures = <<>>
    /\ CreaturesPlaced
    /\ SeatsOfLevel
    /\ NoObjects
    /\ numUnmetGoals \in [Colors -> 0 .. 1]
    /\ numFailedGoals \in [Colors -> 0 .. 1]
    /\ mMana = [s \in Colors |-> 0]
    /\ mGold = [s \in Colors |-> 0]
    /\ mNumClaimedTiles = [s \in Colors |-> 0]
    /\ tileColor = [t \in Coords |-> 1]
    /\ passesLeft = MaxTurns

\* A level with some of the treasuries, whose own upkeep has ended, and
\* with the leftmost columns of the map claimed by one colour; the seats
\* have no mana or nearly all of it.  It is followed through MaxTurns upkeeps.
TreasuryLevel ==
    /\ \E k \in 0 .. MapSizeX :
          tileKind = [t \in Coords |-> IF t[1] < k THEN "claimed" ELSE "ground"]
    /\ \E c \in Colors : tileColor = [t \in Coords |-> c]
    /\ creatures = <<>>
    /\ CreaturesPlaced
    /\ SeatsOfLevel
    /\ rooms \in Sublists(LevelTreasuries)
    /\ activeObjects = <<>>
    /\ traps = <<>>
    /\ missileObjects = <<>>
    /\ animatedObjects = <<>>
    /\ numCoveredTiles = [r \in AllRooms |-> 1]
    /\ numUnmetGoals = [s \in Colors |-> 1]
    /\ numFailedGoals = [s \in Colors |-> 0]
    /\ \E m \in {0, MaxMana - ManaPerTurn - 1} : mMana = [s \in Colors |-> m]
    /\ mGold = [s \in Colors |-> 0]
    /\ mNumClaimedTiles = [s \in Colors |-> 0]
    /\ passesLeft = MaxTurns

UpkeepInit ==
    /\ NoTurnRunning
    /\ NoLookup
    /\ NoThreads
    /\ NoWorld
    /\ \/ ObjectsLevel
       \/ TemplesLevel
       \/ GoalsLevel
       \/ TreasuryLevel

UpkeepNext ==
    \/ doMiscUpkeepBegins
    \/ ActiveObjectUpkeep
    \/ doMiscUpkeepReturns
    \/ CallerResumes

UpkeepSpec == UpkeepInit /\ [][UpkeepNext]_vars

\* The seats of a level, each one in the empty or in the filled pool.
SeatInit ==
    /\ tileKind = [t \in Coords |-> "ground"]
    /\ NoTurnRunning
    /\ creatures = <<>>
    /\ CreaturesPlaced
    /\ NoObjects
    /\ NoSeatUpkeep
    /\ NoLookup
    /\ NoThreads
    /\ NoWorld
    /\ passesLeft = 0
    /\ emptySeats \in SeatLists(SeatColors)
    /\ filledSeats \in Orderings(SeatColors \ Elements(emptySeats))

SeatNext ==
    \/ popEmptySeat
    \/ popFilledSeat

SeatSpec == SeatInit /\ [][SeatNext]_vars

\* The first n elements of list, all of them when it has no more.
Prefix(list, n) == SubSeq(list, 1, Min(n, Len(list)))

\* A level with n creatures, for n up to MaxCreatures, and with the first n
\* treasuries, missile objects, map lights and players it may have.
LookupInit ==
    /\ tileKind = [t \in Coords |-> "ground"]
    /\ NoTurnRunning
    /\ NoSeatUpkeep
    /\ NoThreads
    /\ NoWorld
    /\ passesLeft = 0
    /\ filledSeats = <<>>
    /\ emptySeats = <<>>
    /\ found = NoEntity
    /\ traps = <<>>
    /\ numCoveredTiles = [r \in AllRooms |-> 1]
    /\ \E n \in 0 .. MaxCreatures :
          /\ creatures = [i \in 1 .. n |-> i]
          /\ CreaturesPlaced
          /\ rooms = Prefix(LevelTreasuries, n)
          /\ missileObjects = Prefix(<<Entity("missile", 1, 1)>>, n)
          /\ mapLights = Prefix(<<Entity("mapLight", 1, 1)>>, n)
          /\ players = Prefix([c \in 1 .. Cardinality(Colors) |->
                                  Entity("player", c, c)], n)
    /\ activeObjects = rooms \o missileObjects
    /\ animatedObjects = [i \in 1 .. Len(creatures) |-> Animated(creatures[i])]
                             \o missileObjects

LookupNext ==
    \/ LookupByIndex
    \/ LookupByName

LookupSpec == LookupInit /\ [][LookupNext]_vars

\* A creature with any health, mana and on-map flag; no thread is in an
\* accessor.
LockInit ==
    /\ tileKind = [t \in Coords |-> "ground"]
    /\ NoTurnRunning
    /\ NoSeatUpkeep
    /\ NoObjects
    /\ NoLookup
    /\ NoWorld
    /\ passesLeft = 0
    /\ creatures = <<>>
    /\ CreaturesPlaced
    /\ filledSeats = <<>>
    /\ emptySeats = <<>>
    /\ semaphore = [f \in Fields |-> 1]
    /\ thread = [t \in Threads |-> Idle]
    /\ cell \in [Fields -> FieldValues]

LockNext ==
    \/ AccessorCall
    \/ SemWait
    \/ FieldAccess
    \/ SemPost

LockSpec == LockInit /\ [][LockNext]_vars

\* A level as the editor or the loader leaves it: the map lights show their
\* indicators or not, and the local player has a seat or none.
FrameInit ==
    /\ tileKind = [t \in Coords |-> "ground"]
    /\ floodFillColor = [t \in Coords |-> -1]
    /\ floodFillEnabled = FALSE
    /\ mUniqueNumberFloodFilling = 0
    /\ NoCall
    /\ NoGame
    /\ NoLights
    /\ emptySeats = <<>>
    /\ popped = NoSeat
    /\ NoSweep
    /\ NoSeatUpkeep
    /\ NoThreads
    /\ passesLeft = 0
    /\ activeObjects = <<>>
    /\ rooms \in Sublists(LevelTreasuries)
    /\ traps = <<>>
    /\ missileObjects = <<>>
    /\ animatedObjects = <<>>
    /\ numCoveredTiles = [r \in AllRooms |-> 1]
    /\ mapLights \in SeatLists(MapLights)
    /\ players = <<>>
    /\ found = NoEntity
    /\ mIsServerGameMap \in BOOLEAN
    /\ mTurnNumber = -1
    /\ mIsPaused \in BOOLEAN
    /\ localPlayerSeat \in {NoSeat} \cup Colors
    /\ indicators \in {{}, Elements(mapLights)}
    /\ meshes = {}
    /\ frameLog = {}
    /\ coveringRoom = [t \in Coords |-> NoEntity]
    /\ goldInTile = FullTreasuries
    /\ ModeManager
    /\ callsLeft = 0

FrameNext ==
    \/ setGamePaused
    \/ setTurnNumber
    \/ updateAnimations

FrameSpec == FrameInit /\ [][FrameNext]_vars

\* A small level with its room, its missile object, both or neither; a room
\* of the level covers one tile, which refers back to it.
ObjectInit ==
    /\ floodFillColor = [t \in Coords |-> -1]
    /\ floodFillEnabled = FALSE
    /\ mUniqueNumberFloodFilling = 0
    /\ tileKind = [t \in Coords |-> "ground"]
    /\ NoCall
    /\ NoGame
    /\ NoLights
    /\ emptySeats = <<>>
    /\ popped = NoSeat
    /\ NoSweep
    /\ NoSeatUpkeep
    /\ NoLookup
    /\ NoThreads
    /\ NoFrame
    /\ passesLeft = MaxTurns
    /\ callsLeft = MaxCalls
    /\ \E present \in Sublists(SmallLevel) :
          /\ rooms = SelectSeq(present, LAMBDA a : a.kind \in RoomKinds)
          /\ traps = SelectSeq(present, LAMBDA a : a.kind = "trap")
          /\ missileObjects = SelectSeq(present, LAMBDA a : a.kind = "missile")
          /\ animatedObjects = SelectSeq(present, LAMBDA a : a.kind = "missile")
          /\ activeObjects = present
    /\ numCoveredTiles = [r \in AllRooms |-> IF r \in Elements(rooms) THEN 1 ELSE 0]
    /\ coveringRoom = [t \in Coords |->
                          IF t[2] = 0 /\ t[1] < Len(rooms) THEN rooms[t[1] + 1]
                          ELSE NoEntity]
    /\ goldInTile = FullTreasuries
    /\ ModeManager

ObjectNext ==
    \/ AddObjectCall
    \/ RemoveObjectCall
    \/ clearAll
    \/ doMiscUpkeepBegins
    \/ ActiveObjectUpkeep
    \/ doMiscUpkeepReturns
    \/ CallerResumes

ObjectSpec == ObjectInit /\ [][ObjectNext]_vars

\* The turns of a level whose creatures may take creatures off the map in
\* their own step.
RemovalNext ==
    \/ addCreature
    \/ doTurn
    \/ CreatureTurnRemoving
    \/ doCreatureTurnsReturns
    \/ doMiscUpkeep
    \/ DeadCreatureSweep

RemovalSpec == TurnInit /\ [][RemovalNext]_vars

\* Creatures off the map and a map light, handed to the deletion queues by
\* a few calls.
DeletionInit ==
    /\ tileKind = [t \in Coords |-> "ground"]
    /\ floodFillColor = [t \in Coords |-> -1]
    /\ floodFillEnabled = FALSE
    /\ mUniqueNumberFloodFilling = 0
    /\ NoCall
    /\ NoGame
    /\ NoLights
    /\ emptySeats = <<>>
    /\ popped = NoSeat
    /\ NoSweep
    /\ NoObjects
    /\ NoSeatUpkeep
    /\ NoLookup
    /\ NoThreads
    /\ NoFrame
    /\ coveringRoom = [t \in Coords |-> NoEntity]
    /\ goldInTile = FullTreasuries
    /\ ModeManager
    /\ passesLeft = 0
    /\ callsLeft = MaxCalls

DeletionNext ==
    \/ QueueCall
    \/ processDeletionQueues

DeletionSpec == DeletionInit /\ [][DeletionNext]_vars

\* An empty map and a few calls that add and remove creatures.
PlacementInit ==
    /\ tileKind = [t \in Coords |-> "ground"]
    /\ floodFillColor = [t \in Coords |-> -1]
    /\ floodFillEnabled = FALSE
    /\ mUniqueNumberFloodFilling = 0
    /\ NoCall
    /\ NoGame
    /\ NoLights
    /\ emptySeats = <<>>
    /\ popped = NoSeat
    /\ NoSweep
    /\ NoObjects
    /\ NoSeatUpkeep
    /\ NoLookup
    /\ NoThreads
    /\ NoFrame
    /\ coveringRoom = [t \in Coords |-> NoEntity]
    /\ goldInTile = FullTreasuries
    /\ ModeManager
    /\ passesLeft = 0
    /\ callsLeft = MaxCreatureCalls

PlacementNext ==
    \/ AddCreatureCall
    \/ RemoveCreatureCall

PlacementSpec == PlacementInit /\ [][PlacementNext]_vars

\* A level with some of the treasuries, followed through MaxTurns upkeeps
\* with a few withdrawals between them.  No object of the level is active,
\* so the sweep of an upkeep has no step.
TreasuryInit ==
    /\ NoTurnRunning
    /\ NoLookup
    /\ NoThreads
    /\ NoFrame
    /\ coveringRoom = [t \in Coords |-> NoEntity]
    /\ goldInTile = FullTreasuries
    /\ ModeManager
    /\ callsLeft = MaxCalls
    /\ TreasuryLevel

TreasuryNext ==
    \/ withdrawFromTreasuries
    \/ doMiscUpkeepBegins
    \/ doMiscUpkeepReturns
    \/ CallerResumes

TreasurySpec == TreasuryInit /\ [][TreasuryNext]_vars

\* The mode manager of an application whose game map is empty.
ModeInit ==
    /\ tileKind = [t \in Coords |-> "ground"]
    /\ floodFillColor = [t \in Coords |-> -1]
    /\ floodFillEnabled = FALSE
    /\ mUniqueNumberFloodFilling = 0
    /\ NoCall
    /\ NoGame
    /\ NoLights
    /\ NoUpkeep

ModeNext ==
    \/ progressMode
    \/ regressMode

ModeSpec == ModeInit /\ [][ModeNext]_vars

\* ------------------------------------------------------- reference notions
\* Independent of the search: what the properties below speak about.
StartPoint == <<args.x1, args.y1>>
GoalPoint == <<args.x2, args.y2>>
PathDone == pc = "done" /\ args.op = "path"
Adjacent(s, t) == Abs(s[1] - t[1]) + Abs(s[2] - t[2]) = 1
IsWalkable(t) == tileKind[t] = "ground"

\* The documented admissibility of a step onto tile t.
Admissible(passability, t, color) ==
    CASE passability = "walkableTile" -> tileKind[t] = "ground"
      [] passability = "flyableTile" -> tileKind[t] \in {"ground", "lava"}
      [] passability = "diggableTile" ->
            tileKind[t] = "ground" \/ (tileKind[t] = "claimedWall" /\ color = WallColor)
      [] OTHER -> FALSE

\* The steps the search is seen to take: as documented, but every tile for
\* the impassable class.
Steppable(passability, t, color) ==
    passability = "impassableTile" \/ Admissible(passability, t, color)

RECURSIVE StepsTo(_, _, _, _)
\* Least number of steps from the tiles in reached to goal over tiles of the
\* set allowed, -1 when there is no route.
StepsTo(reached, goal, allowed, k) ==
    IF goal \in reached THEN k
    ELSE LET next == reached \cup {n \in allowed : \E t \in reached : Adjacent(t, n)}
         IN  IF next = reached THEN -1 ELSE StepsTo(next, goal, allowed, k + 1)

\* Number of tiles of a shortest 4-connected route from s to t whose tiles
\* after the first lie in allowed; 0 when there is none.
ShortestRoute(s, t, allowed) == StepsTo({s}, t, allowed, 0) + 1

WalkableTiles == {t \in Coords : IsWalkable(t)}
Connected(s, t) == ShortestRoute(s, t, WalkableTiles) > 0

\* ------------------------------------------------------------------ claims

\* C1: path() returns the empty sequence whenever the start tile or the goal
\* tile does not exist on the grid, for every class, flood fill on or off.
C1_MissingEndpointGivesEmpty ==
    (PathDone /\ (StartPoint \notin Coords \/ GoalPoint \notin Coords))
        => returnList = <<>>

C1_Witness ==
    /\ PathDone
    /\ StartPoint \in Coords
    /\ GoalPoint \notin Coords
    /\ ~floodFillEnabled
    /\ args.passability = "flyableTile"
    /\ returnList = <<>>

\* C2: with flood fill enabled and the walkable class, a call whose start and
\* goal tiles carry different colours returns the empty sequence without ever
\* entering the search: no entry is put on the open or the closed list.
C2_ColorMismatchShortCircuits ==
    ( /\ args.op = "path"
      /\ floodFillEnabled
      /\ args.passability = "walkableTile"
      /\ StartPoint \in Coords
      /\ GoalPoint \in Coords
      /\ floodFillColor[StartPoint] # floodFillColor[GoalPoint] )
        => /\ pc = "done"
           /\ returnList = <<>>
           /\ openList = <<>>
           /\ closedList = <<>>

C2_Witness ==
    /\ PathDone
    /\ floodFillEnabled
    /\ args.passability = "walkableTile"
    /\ StartPoint \in Coords
    /\ GoalPoint \in Coords
    /\ IsWalkable(StartPoint)
    /\ IsWalkable(GoalPoint)
    /\ floodFillColor[StartPoint] # floodFillColor[GoalPoint]
    /\ returnList = <<>>

\* C3: a non-empty result of path() has as few tiles as any 4-connected route
\* from start to goal over tiles the class lets the search step on, and on an
\* all-walkable grid path(A, B, walkable) has exactly |dx| + |dy| + 1 tiles.
C3_ShortestRoute ==
    PathDone =>
        /\ returnList # <<>> =>
              Len(returnList) =
                  ShortestRoute(StartPoint, GoalPoint,
                      {t \in Coords : Steppable(args.passability, t, args.color)})
        /\ ( /\ \A t \in Coords : IsWalkable(t)
             /\ args.passability = "walkableTile"
             /\ StartPoint \in Coords
             /\ GoalPoint \in Coords )
              => Len(returnList) =
                    Abs(args.x2 - args.x1) + Abs(args.y2 - args.y1) + 1

\* A route that has to go round an obstacle.
C3_Witness ==
    /\ PathDone
    /\ args.passability = "walkableTile"
    /\ Len(returnList) > Abs(args.x2 - args.x1) + Abs(args.y2 - args.y1) + 1

\* C4: a non-empty result of path() starts with the start tile, ends with the
\* goal tile, has grid-neighbours as consecutive tiles, repeats no tile, and
\* every tile after the first is admissible for the requested class.
C4_ResultIsAdmissibleRoute ==
    (PathDone /\ returnList # <<>>) =>
        /\ returnList[1] = StartPoint
        /\ returnList[Len(returnList)] = GoalPoint
        /\ \A i \in 1 .. Len(returnList) - 1 : Adjacent(returnList[i], returnList[i + 1])
        /\ \A i, j \in 1 .. Len(returnList) : returnList[i] = returnList[j] => i = j
        /\ \A i \in 2 .. Len(returnList) :
              Admissible(args.passability, returnList[i], args.color)

\* C5: with the impassable class, path() between two distinct existing tiles
\* returns the empty sequence after expanding only the start node.
C5_ImpassableFindsNothing ==
    ( /\ args.op = "path"
      /\ args.passability = "impassableTile"
      /\ StartPoint \in Coords
      /\ GoalPoint \in Coords
      /\ StartPoint # GoalPoint )
        => /\ pc # "found"
           /\ Len(closedList) <= 1
           /\ pc = "done" => returnList = <<>>

\* C6: after enableFloodFill(), two walkable tiles carry the same colour
\* exactly when one is reachable from the other over 4-connected walkable
\* tiles; pathExists(walkable) is true exactly for such pairs, and path() is
\* empty for a separated pair.
C6_ColorsAreComponents ==
    floodFillEnabled =>
        /\ pc = "idle" =>
              \A s \in WalkableTiles, t \in WalkableTiles :
                 /\ (floodFillColor[s] = floodFillColor[t]) <=> Connected(s, t)
                 /\ pathExists(CallArgs("pathExists", s, t, "walkableTile", WallColor))
                        <=> Connected(s, t)
        /\ ( /\ pc = "done"
             /\ args.passability = "walkableTile"
             /\ StartPoint \in WalkableTiles
             /\ GoalPoint \in WalkableTiles )
              => /\ args.op = "pathExists" =>
                        (existsResult <=> Connected(StartPoint, GoalPoint))
                 /\ (args.op = "path" /\ ~Connected(StartPoint, GoalPoint)) =>
                        returnList = <<>>

\* A wall separates two walkable tiles: different colours, empty path.
C6_Witness ==
    /\ floodFillEnabled
    /\ PathDone
    /\ args.passability = "walkableTile"
    /\ StartPoint \in WalkableTiles
    /\ GoalPoint \in WalkableTiles
    /\ ~Connected(StartPoint, GoalPoint)
    /\ floodFillColor[StartPoint] # floodFillColor[GoalPoint]
    /\ floodFillColor[StartPoint] # -1
    /\ \E t \in WalkableTiles : t # StartPoint /\ floodFillColor[t] = floodFillColor[StartPoint]
    /\ returnList = <<>>

\* C7: after enableFloodFill(), every non-walkable tile keeps colour -1 and
\* walkablePathExists never reports a match for a pair of tiles of which at
\* least one is non-walkable.
C7_NonWalkableNeverMatched ==
    floodFillEnabled =>
        /\ \A t \in Coords \ WalkableTiles : floodFillColor[t] = -1
        /\ \A s \in Coords, t \in Coords :
              (s # t /\ (~IsWalkable(s) \/ ~IsWalkable(t)))
                  => ~walkablePathExists(s[1], s[2], t[1], t[2])

\* C8: pathExists() equals the colour equality of the two tiles for the
\* walkable class and "path() has at least 2 tiles" for every other class.
C8_PathExistsIsWrapper ==
    (pc = "done" /\ args.op = "pathExists") =>
        existsResult =
            IF args.passability = "walkableTile"
            THEN /\ StartPoint \in Coords
                 /\ GoalPoint \in Coords
                 /\ floodFillColor[StartPoint] = floodFillColor[GoalPoint]
            ELSE Len(path([args EXCEPT !.op = "path"])) >= 2

\* A one-tile path: path() is non-empty, pathExists() is false.
C8_Witness ==
    /\ pc = "done"
    /\ args.op = "pathExists"
    /\ args.passability = "flyableTile"
    /\ StartPoint \in Coords
    /\ StartPoint = GoalPoint
    /\ ~existsResult

Reversed(a) == [a EXCEPT !.x1 = a.x2, !.y1 = a.y2, !.x2 = a.x1, !.y2 = a.y1]

\* C9 as stated: for every pair of existing tiles and every class, path(A, B)
\* is non-empty exactly when path(B, A) is.
C9_SymmetricForAllPairs ==
    (PathDone /\ StartPoint \in Coords /\ GoalPoint \in Coords) =>
        ((returnList # <<>>) <=> (path(Reversed(args)) # <<>>))

\* C9 as amended: the same, for pairs of existing tiles that the class either
\* both admits or both refuses as a step.
C9_SymmetricForLikeEndpoints ==
    ( /\ PathDone
      /\ StartPoint \in Coords
      /\ GoalPoint \in Coords
      /\ Admissible(args.passability, StartPoint, args.color)
            <=> Admissible(args.passability, GoalPoint, args.color) )
        => ((returnList # <<>>) <=> (path(Reversed(args)) # <<>>))

C9_Witness ==
    /\ PathDone
    /\ args.passability = "diggableTile"
    /\ StartPoint \in Coords
    /\ GoalPoint \in Coords
    /\ StartPoint # GoalPoint
    /\ Admissible(args.passability, StartPoint, args.color)
    /\ Admissible(args.passability, GoalPoint, args.color)
    /\ ~IsWalkable(GoalPoint)
    /\ Len(returnList) >= 3
    /\ path(Reversed(args)) # <<>>

\* C10: every call of path() terminates: each iteration of the search loop
\* either ends the search (the goal is taken from the open list, or the open
\* list is empty) or moves one more entry to the closed list; no tile enters
\* the closed list twice, so there are at most as many expansions as tiles.
C10_SearchTerminates ==
    /\ [](/\ \A i, j \in 1 .. Len(closedList) :
                closedList[i].tile = closedList[j].tile => i = j
          /\ Len(closedList) <= Cardinality(Coords))
    /\ [][pc = "search" =>
            \/ /\ pc' = "search"
               /\ openList # <<>>
               /\ Len(closedList') = Len(closedList) + 1
            \/ /\ pc' = "found"
               /\ Len(closedList') = Len(closedList) + 1
               /\ closedList'[Len(closedList')].tile = GoalPoint
            \/ /\ pc' = "failed"
               /\ openList = <<>>]_vars

\* A search that gave up after expanding every tile it could reach.
C10_Witness ==
    /\ pc = "failed"
    /\ Len(closedList) >= 3
    /\ openList = <<>>

\* ------------------------------------------ claims on sight and clearance
LosDone == pc = "done" /\ args.op = "lineOfSight"
ReverseSeq(s) == [i \in 1 .. Len(s) |-> s[Len(s) + 1 - i]]
AllOpen == \A t \in Coords : tileKind[t] = "ground"

\* C11: the tile sequence returned by lineOfSight() is 4-connected, each
\* tile sharing an edge with the tile before it, for every pair of
\* coordinates and every direction of the line.
C11_LineIsFourConnected ==
    LosDone =>
        \A i \in 1 .. Len(returnList) - 1 : Adjacent(returnList[i], returnList[i + 1])

\* C12: lineOfSight() returns the empty path as soon as a tile it steps
\* onto, a tile of the line or the extra tile, does not exist; a returned
\* non-empty path holds existing tiles only and is the whole trace, never
\* the part gathered before an abort.
C12_MissingTileGivesEmpty ==
    /\ [](LosDone => \A i \in 1 .. Len(returnList) : returnList[i] \in Coords)
    /\ [][(pc = "tracing" /\ los.x # los.x1
            /\ (DrawnTile(los) \notin Coords
                \/ (los.E > 0 /\ ExtraTile(los) \notin Coords)))
          => (pc' = "done" /\ returnList' = <<>> /\ los'.path = <<>>)]_vars
    /\ [][(pc = "tracing" /\ pc' = "done" /\ returnList' # <<>>)
          => (los.x = los.x1 /\ returnList' = los.path)]_vars

\* A trace that had gathered its line tile and was aborted on the missing
\* extra tile has returned the empty path.
C12_Witness ==
    /\ LosDone
    /\ los.returned
    /\ returnList = <<>>
    /\ DrawnTile(los) \in Coords
    /\ ExtraTile(los) \notin Coords

\* C13: on a grid whose tiles all exist and are open, lineOfSight(b, a)
\* is the reverse of lineOfSight(a, b).
C13_ReverseLineIsReversed ==
    (LosDone /\ AllOpen /\ StartPoint \in Coords /\ GoalPoint \in Coords) =>
        returnList = ReverseSeq(lineOfSight(args.x2, args.y2, args.x1, args.y1))

\* C14: pathIsClear() follows the per-class rules of path(): for the
\* walkable, flyable and diggable classes it is true exactly when the path
\* is non-empty and all its tiles are admissible; for the impassable class
\* it is false; none of these four classes ends the process.
C14_ClearFollowsClassRules ==
    (pc \in {"done", "exited"} /\ args.op = "pathIsClear") =>
        /\ pc = "done"
        /\ isClear =
              (/\ args.path # <<>>
               /\ \A i \in 1 .. Len(args.path) :
                     \E color \in Colors :
                        Admissible(args.passability, args.path[i], color))

\* s is t with some of its entries left out.
IsSubsequence(s, t) ==
    \E keep \in SUBSET (1 .. Len(t)) :
        LET Kept[i \in 0 .. Len(t)] ==
                IF i = 0 THEN <<>>
                ELSE IF i \in keep THEN Append(Kept[i - 1], t[i]) ELSE Kept[i - 1]
        IN  s = Kept[Len(t)]

\* C15: for every path and class cutCorners() ends leaving a subsequence
\* of the path it was given, with the same first and last tile; a path of
\* at most three tiles is left as it was.
C15_CutLeavesSubsequence ==
    (pc \in {"done", "exited"} /\ args.op = "cutCorners") =>
        /\ pc = "done"
        /\ IsSubsequence(returnList, args.path)
        /\ args.path # <<>> =>
              /\ returnList # <<>>
              /\ returnList[1] = args.path[1]
              /\ returnList[Len(returnList)] = args.path[Len(args.path)]
        /\ Len(args.path) <= 3 => returnList = args.path

\* C16: the tiles visibleTiles() reports for a radius are among those it
\* reports from the same origin, on the same map, for any larger radius.
C16_VisibleGrowsWithRadius ==
    (pc = "done" /\ args.op = "visibleTiles") =>
        \A r \in args.sightRadius + 1 .. MaxRadius + 1 :
            Elements(returnList)
                \subseteq Elements(visibleTiles(<<args.x1, args.y1>>, r))

\* A wall within the smaller radius hides a tile that only the larger
\* radius reaches, and a tile beyond the smaller radius is seen.
C16_Witness ==
    /\ pc = "done"
    /\ args.op = "visibleTiles"
    /\ \E t \in Elements(returnList) : ~permitsVision(t)
    /\ LET larger == Elements(visibleTiles(<<args.x1, args.y1>>, args.sightRadius + 1))
       IN  /\ larger # Elements(returnList)
           /\ \E t \in Coords :
                 /\ RadiusSquared(<<t[1] - args.x1, t[2] - args.y1>>)
                       <= sightRadiusSquared(args.sightRadius + 1)
                 /\ t \notin larger

\* ------------------------------------------------ claims on the turn engine
DoTurnReturns == pc = "deadCreatureSweep" /\ pc' = "idle"
DeadAtStart == {c \in Elements(turnStart.creatures) : turnStart.hp[c] <= 0}

C18_EachCreatureOnceInOrder ==
    /\ pc = "creatureTurns" =>
          /\ turn.i <= Len(turnStart.creatures)
          /\ visited = SubSeq(turnStart.creatures, 1, turn.i)
    /\ pc \in {"miscUpkeep", "deadCreatureSweep"} => visited = turnStart.creatures

\* The phase has ended after a creature was spawned during it: the creature
\* registered at the start was visited, the spawned one was not.
C18_Witness ==
    /\ pc = "miscUpkeep"
    /\ Len(visited) >= 1
    /\ Len(creatures) > Len(turnStart.creatures)
    /\ creatures[Len(creatures)] \notin Elements(visited)

\* C19: a creature whose health is at most 0 when the turn starts is, after
\* doTurn() and the flush, no longer among the creatures numCreatures() and
\* getCreature() report, and is destroyed through the deletion queue only.
C19_DeadCreatureGone ==
    /\ (pc = "idle" /\ phaseLog = <<"creatureTurns", "miscUpkeep",
                                    "deadCreatureSweep", "deletionFlush">>)
          => \A c \in DeadAtStart : c \notin Elements(creatures)
    /\ \A c \in deleted : c \notin Elements(creatures)

\* Number of creatures on the map that are alive and controlled from seat s.
LivingControlled(list, health, s) ==
    Cardinality({i \in 1 .. Len(list) :
                    health[list[i]] > 0 /\ getControllingSeat(list[i]) = s})

\* C20: when doTurn() returns, the controlled-creature count of every
\* filled seat is the number of creatures on the map with health above 0
\* whose controlling player holds that seat; nothing is carried over from
\* the turn before.
C20_CountsMatchLivingCreatures ==
    [][DoTurnReturns =>
          \A s \in Elements(filledSeats) :
             mNumCreaturesControlled'[s] = LivingControlled(creatures', hp', s)]_vars

\* A turn has returned with a seat that controls a living creature and has a
\* dead creature of its colour on the map, which is not counted.
C20_Witness ==
    /\ pc = "idle"
    /\ phaseLog = <<"creatureTurns", "miscUpkeep", "deadCreatureSweep">>
    /\ \E s \in Elements(filledSeats) :
          /\ mNumCreaturesControlled[s] >= 1
          /\ mNumCreaturesControlled[s] = LivingControlled(creatures, hp, s)
          /\ \E c \in Elements(creatures) : getColor(c) = s /\ hp[c] <= 0

\* ---------------------------------------------------------------- upkeep
Occurrences(list, a) == Cardinality({i \in 1 .. Len(list) : list[i] = a})
NoneTwice(list) == Len(list) = Cardinality(Elements(list))
Last(list) == list[Len(list)]
SweepDone == pc = "activeObjects" /\ activeObjectCount >= Len(activeObjects)
UpkeepBegins == pc = "idle" /\ pc' = "activeObjects"
UpkeepReturns == pc = "activeObjects" /\ pc' = "done"
UpkeepReturned == pc = "done" /\ args = [op |-> "doMiscUpkeep"]

\* C21: when the sweep over the active objects ends, the upkeep of every
\* object that was active when the sweep began has run exactly once, and of
\* these objects exactly those whose upkeep reported the end are gone from
\* the active objects.
C21_EachObjectOnceFinishedGone ==
    SweepDone =>
       \A o \in Elements(sweepStart) :
          /\ Occurrences(upkeepLog, o) = 1
          /\ o \notin Elements(activeObjects) <=> o \in finished

\* The sweep has ended after an object was erased in front of one that
\* stayed.
C21_Witness ==
    /\ SweepDone
    /\ \E i, j \in 1 .. Len(sweepStart) :
          /\ i < j
          /\ sweepStart[i] \in finished
          /\ sweepStart[j] \notin finished

\* C22: a missile object, room or trap that the upkeep of an object adds
\* during the sweep gets no upkeep in that sweep, joins the active objects
\* only when the sweep is over, and is active when doMiscUpkeep() returns.
C22_NewObjectsWaitForNextSweep ==
    \A o \in {NewMissile, NewRoom, NewTrap} :
       /\ pc = "activeObjects" =>
             /\ o \notin Elements(upkeepLog)
             /\ o \notin Elements(activeObjects)
       /\ UpkeepReturned /\ o \in Elements(rooms \o traps \o missileObjects)
             => o \in Elements(activeObjects)

\* The dungeon temples and the workers of a colour.
TemplesOf(color) == {i \in 1 .. Len(rooms) : rooms[i].kind = "dungeonTemple"
                                              /\ rooms[i].color = color}
WorkersOf(color) == {i \in 1 .. Len(creatures) : isWorker(creatures[i])
                                                  /\ getColor(creatures[i]) = color}
SpawnsOf(color) == {i \in 1 .. Len(produceKoboldCalls) :
                       produceKoboldCalls[i].color = color}

\* C23: in one upkeep, a colour with T >= 1 dungeon temples and W workers
\* has min(max(4 * T - W, 0), T) kobolds asked for, and no temple is asked
\* for more than one.
C23_SpawnsPerColor ==
    pc = "activeObjects" =>
       /\ NoneTwice(produceKoboldCalls)
       /\ \A color \in Colors :
             LET T == Cardinality(TemplesOf(color))
                 W == Cardinality(WorkersOf(color))
             IN  T >= 1 => Cardinality(SpawnsOf(color)) = Min(Max(4 * T - W, 0), T)

\* Two temples of a colour that lacks one kobold: one is asked for.
C23_Witness ==
    /\ pc = "activeObjects"
    /\ \E color \in Colors :
          /\ Cardinality(TemplesOf(color)) = 2
          /\ Cardinality(WorkersOf(color)) = 7
          /\ Cardinality(SpawnsOf(color)) = 1

\* C24: when doMiscUpkeep() returns, the rooms are the rooms that have a
\* covered tile, in their old order, and no room without a covered tile is
\* among the active objects.
C24_EmptyRoomsRemoved ==
    [][UpkeepReturns =>
          /\ rooms' = SelectSeq(rooms, LAMBDA r : numCoveredTiles[r] # 0)
          /\ \A r \in AllRooms :
                numCoveredTiles[r] = 0 =>
                   r \notin Elements(rooms') \cup Elements(activeObjects')]_vars

\* doMiscUpkeep() has returned after removing two rooms that stood one
\* behind the other and keeping a third.
C24_Witness ==
    /\ UpkeepReturned
    /\ Len(sweepStart) >= 2
    /\ \A i \in 1 .. 2 : /\ sweepStart[i] \in AllRooms
                         /\ numCoveredTiles[sweepStart[i]] = 0
                         /\ sweepStart[i] \notin finished
    /\ rooms = <<NewRoom>>

RECURSIVE GoldIn(_)
\* The gold of a set of treasuries.
GoldIn(S) ==
    IF S = {} THEN 0
    ELSE LET r == CHOOSE x \in S : TRUE IN getTotalGold(r) + GoldIn(S \ {r})

\* C25: an upkeep sets the mana of every filled seat to the smaller of
\* 250000 and its old mana + 50 + its count of claimed tiles, and its gold
\* to the sum of the gold of the treasuries of its colour.
C25_ManaAndGold ==
    [][UpkeepReturns =>
          \A s \in Elements(filledSeats) :
             /\ mMana'[s] = Min(mMana[s] + 50 + mNumClaimedTiles[s], 250000)
             /\ mMana'[s] <= 250000
             /\ mGold'[s] = GoldIn({r \in Elements(rooms') :
                                       r.kind = "treasury" /\ r.color = s})]_vars

\* A filled seat that owns two treasuries has reached the cap.
C25_Witness ==
    /\ UpkeepReturned
    /\ \E s \in Elements(filledSeats) :
          /\ mMana[s] = 250000
          /\ mNumClaimedTiles[s] > 0
          /\ mGold[s] = 30

\* C26: an upkeep adds to the winners exactly the filled seats that have no
\* unmet and no failed goal, and no seat is in the winners twice.
C26_WinnersOnceEach ==
    [][UpkeepBegins =>
          /\ Elements(winningSeats') =
                Elements(winningSeats)
                   \cup {s \in Elements(filledSeats) :
                            numUnmetGoals[s] = 0 /\ numFailedGoals[s] = 0}
          /\ NoneTwice(winningSeats')]_vars

\* The second upkeep of a game with a winning and a losing seat has begun.
C26_Witness ==
    /\ pc = "activeObjects"
    /\ passesLeft = MaxTurns - 1
    /\ Len(filledSeats) = 2
    /\ Len(winningSeats) = 1

\* C27: an entity or map light is destroyed only by processDeletionQueues(),
\* which destroys what the queues hold and leaves both queues empty; no
\* phase of a turn destroys one.
C27_DestroyedOnlyByFlush ==
    [][deleted' # deleted \/ deletedMapLights' # deletedMapLights =>
          /\ pc = "idle" /\ pc' = "idle"
          /\ deleted' = deleted \cup Elements(entitiesToDelete)
          /\ deletedMapLights' = deletedMapLights \cup Elements(mapLightsToDelete)
          /\ entitiesToDelete' = <<>>
          /\ mapLightsToDelete' = <<>>
          /\ Last(phaseLog') = "deletionFlush"]_vars

\* A flush after a turn has destroyed a creature and a map light.
C27_Witness ==
    /\ deleted # {}
    /\ deletedMapLights # {}
    /\ entitiesToDelete = <<>>
    /\ mapLightsToDelete = <<>>
    /\ Len(phaseLog) = 4

\* C28: a pop of a seat leaves no seat in both pools and the number of
\* seats as it was, and popEmptySeat() for a colour without an empty seat
\* returns NULL and changes neither pool.
C28_SeatsMoveBetweenPools ==
    [][/\ Elements(emptySeats') \cap Elements(filledSeats') = {}
       /\ Len(emptySeats') + Len(filledSeats') = Len(emptySeats) + Len(filledSeats)
       /\ NoneTwice(emptySeats' \o filledSeats')
       /\ args'.op = "popEmptySeat" /\ args'.color \notin Elements(emptySeats)
             => popped' = NoSeat /\ UNCHANGED <<emptySeats, filledSeats>>
       /\ args'.op = "popEmptySeat" /\ args'.color \in Elements(emptySeats)
             => /\ popped' = args'.color
                /\ Last(filledSeats') = popped'
                /\ popped' \notin Elements(emptySeats')]_vars

\* popEmptySeat() has returned NULL while seats of other colours were empty,
\* after a seat had moved to the filled pool and back.
C28_Witness ==
    /\ args.op = "popEmptySeat"
    /\ popped = NoSeat
    /\ Len(emptySeats) >= 2
    /\ Len(filledSeats) >= 1

\* ------------------------------------------------------------------ lookups
\* C30: a lookup of an entity that is not there, by a name that no entity of
\* the collection has or by an index outside the collection, returns NULL
\* and does not fail.
C30_MissingEntityGivesNull ==
    [][/\ args'.op = "getByName"
          /\ (\A e \in Elements(Collection(args'.kind)) : getName(e) # args'.name)
          => found' = NoEntity /\ pc' = "idle"
       /\ args'.op = "getByIndex"
          /\ (args'.index < 0 \/ args'.index >= Len(Collection(args'.kind)))
          => found' = NoEntity /\ pc' = "idle"]_vars

\* The half of C30 that speaks of names.
MissingNameGivesNull ==
    [][args'.op = "getByName"
          /\ (\A e \in Elements(Collection(args'.kind)) : getName(e) # args'.name)
          => found' = NoEntity /\ pc' = "idle"]_vars

\* ------------------------------------------------------------- field locks
Holding(t) == thread[t].state \in {"inside", "leaving"}

\* C29: no two threads are inside accessors of the same field at once, the
\* semaphore of a field is taken exactly while a thread is inside an
\* accessor of that field, so a thread waits only for a thread that is
\* inside an accessor of the same field, and a thread that waits holds no
\* semaphore.
C29_OneLockPerField ==
    /\ \A t, u \in Threads :
          t # u /\ Holding(t) /\ Holding(u) => thread[t].field # thread[u].field
    /\ \A f \in Fields :
          semaphore[f] = IF \E t \in Threads : Holding(t) /\ thread[t].field = f
                         THEN 0 ELSE 1
    /\ \A t \in Threads :
          thread[t].state = "waiting" /\ semaphore[thread[t].field] = 0
             => \E u \in Threads : /\ u # t
                                   /\ Holding(u)
                                   /\ thread[u].field = thread[t].field
    /\ \E t \in Threads :
          ~(thread[t].state = "waiting" /\ semaphore[thread[t].field] = 0)

\* The turn thread writes the health while the render thread reads the mana.
C29_Witness ==
    /\ thread["turn"].state = "inside"
    /\ thread["turn"].field = "hp"
    /\ thread["turn"].op = "set"
    /\ thread["render"].state = "inside"
    /\ thread["render"].field = "mana"
    /\ thread["render"].op = "get"

\* ------------------------------------------- claims on the rest of the game
\* C31: when updateAnimations() halts the process because the local player has
\* no seat, the pause state, the indicators of the map lights and the scene
\* entities are as they were before the call.
C31_HaltLeavesStateUntouched ==
    [][(pc' = "exited" /\ args'.op = "updateAnimations")
         => UNCHANGED <<mIsPaused, indicators, meshes>>]_vars

\* updateAnimations() halts exactly when a client starts its game with no
\* seat for the local player, and then it has made no scene entity.
HaltOnMissingSeat ==
    [][args'.op = "updateAnimations"
         => /\ pc' = "exited"
                 <=> (~mIsServerGameMap /\ mTurnNumber = 0 /\ localPlayerSeat = NoSeat)
            /\ pc' = "exited" => meshes' = meshes]_vars

\* C32: after removeRoom(r) no tile's covering room is r.
C32_NoTileRefersToRemovedRoom ==
    [][(args'.op = "remove" /\ args'.entity.kind \in RoomKinds)
         => \A t \in Coords : coveringRoom'[t] # args'.entity]_vars

\* The entry of the closed list on tile t.
ClosedEntry(t) == closedList[FindTile(closedList, t)]

\* The entries on the open list have the cost of their parent plus 1.
OpenNodesCarryParentCost ==
    pc = "search" =>
       \A i \in 1 .. Len(openList) :
          \/ openList[i].parent = NoTile /\ openList[i].g = 0
          \/ /\ FindTile(closedList, openList[i].parent) # 0
             /\ openList[i].g = ClosedEntry(openList[i].parent).g + 1

\* The entry the search takes from the open list is the first of those with
\* the lowest g + h.
NextNodeIsEarliestLowest ==
    [][(pc = "search" /\ openList # <<>>) =>
          \E k \in 1 .. Len(openList) :
             /\ closedList'[Len(closedList')].tile = openList[k].tile
             /\ \A j \in 1 .. Len(openList) : fCost(openList[k]) <= fCost(openList[j])
             /\ \A j \in 1 .. k - 1 : fCost(openList[k]) < fCost(openList[j])]_vars

\* C33: every entry on the open list of path() has h equal to the Manhattan
\* distance from its tile to the goal and g equal to the g of its parent
\* plus 1, and the entry taken next is the first of those with the lowest
\* g + h.
C33_OpenNodesCarryManhattanCosts ==
    [][/\ pc' = "search" =>
             \A i \in 1 .. Len(openList') :
                /\ openList'[i].h = Abs(args'.x2 - openList'[i].tile[1])
                                      + Abs(args'.y2 - openList'[i].tile[2])
                /\ \/ openList'[i].parent = NoTile /\ openList'[i].g = 0
                   \/ /\ FindTile(closedList', openList'[i].parent) # 0
                      /\ openList'[i].g
                           = closedList'[FindTile(closedList', openList'[i].parent)].g + 1
       /\ (pc = "search" /\ openList # <<>>) =>
             \E k \in 1 .. Len(openList) :
                /\ closedList'[Len(closedList')].tile = openList[k].tile
                /\ \A j \in 1 .. Len(openList) : fCost(openList[k]) <= fCost(openList[j])
                /\ \A j \in 1 .. k - 1 : fCost(openList[k]) < fCost(openList[j])]_vars

\* C34: when creatures are removed while the creature-turn phase runs, the
\* loop never reads the creature list at or beyond its size, and at the end
\* of the phase every creature that was registered at its start and was not
\* removed has had its step exactly once.
C34_RemovalKeepsSweepValid ==
    /\ (pc = "creatureTurns" /\ creatureTurnsRemaining) => turn.i < Len(creatures)
    /\ pc = "miscUpkeep" =>
          \A c \in Elements(turnStart.creatures) \cap Elements(creatures) :
             Occurrences(visited, c) = 1

\* C35: for two existing tiles, pathExists() is true exactly when path()
\* with the same arguments returns a non-empty list.
C35_PathExistsAgreesWithPath ==
    (pc = "done" /\ args.op = "pathExists" /\ StartPoint \in Coords
       /\ GoalPoint \in Coords)
      => (existsResult <=> Len(path([args EXCEPT !.op = "path"])) >= 1)

\* For two different existing tiles and a class other than walkable,
\* pathExists() and path() agree.
PathExistsAgreesOffWalkable ==
    (pc = "done" /\ args.op = "pathExists" /\ StartPoint \in Coords
       /\ GoalPoint \in Coords /\ StartPoint # GoalPoint
       /\ args.passability # "walkableTile")
      => (existsResult <=> Len(path([args EXCEPT !.op = "path"])) >= 1)

\* C37: a flush destroys every queued entity and every queued map light
\* exactly once, also when an object was queued twice before the flush.
C37_EachQueuedObjectDeletedOnce ==
    [][(deleteLog' # deleteLog \/ pc' = "exited") =>
          /\ pc' # "exited"
          /\ \A ge \in Elements(entitiesToDelete) :
                Occurrences(deleteLog'.entities, ge) = 1
          /\ \A ml \in Elements(mapLightsToDelete) :
                Occurrences(deleteLog'.mapLights, ml) = 1]_vars

\* A flush destroys every object that was queued once exactly once.
QueuedOnceDeletedOnce ==
    [][(deleteLog' # deleteLog /\ ~QueuedTwice(entitiesToDelete)
          /\ ~QueuedTwice(mapLightsToDelete)) =>
          /\ pc' # "exited"
          /\ \A ge \in Elements(entitiesToDelete) :
                Occurrences(deleteLog'.entities, ge) = 1
          /\ \A ml \in Elements(mapLightsToDelete) :
                Occurrences(deleteLog'.mapLights, ml) = 1]_vars

\* C38: after any calls of addCreature and removeCreature a creature is in
\* the list of creatures exactly when it is among the animated objects, among
\* the creatures of its tile and flagged as on the map, and no creature is in
\* the list twice.
C38_CreaturePlacementCoincides ==
    /\ NoneTwice(creatures)
    /\ \A c \in CreatureIds :
          /\ c \in Elements(creatures) <=> Animated(c) \in Elements(animatedObjects)
          /\ c \in Elements(creatures) <=> c \in creaturesInCell[positionTile(c)]
          /\ c \in Elements(creatures) <=> c \in isOnMap

\* The gold in the treasuries of a colour among the rooms, with the gold of
\* every treasury given by held.
GoldOfColor(held, color) ==
    LET owned == getRoomsByTypeAndColor(rooms, "treasury", color)
        sum[i \in 0 .. Len(owned)] ==
            IF i = 0 THEN 0 ELSE sum[i - 1] + held[owned[i]]
    IN  sum[Len(owned)]

\* A call of withdrawFromTreasuries() returns with this step.
WithdrawReturns == callsLeft' < callsLeft /\ args'.op = "withdrawFromTreasuries"

\* C39: withdrawFromTreasuries(gold, seat) returns false and leaves every
\* treasury as it was, or returns true and has taken exactly gold from the
\* treasuries of the seat, for every withdrawal between two upkeeps.
C39_WithdrawsAllOrNothing ==
    [][WithdrawReturns =>
          IF args'.returned
          THEN GoldOfColor(goldInTile', args'.seat)
                  = GoldOfColor(goldInTile, args'.seat) - args'.gold
          ELSE goldInTile' = goldInTile]_vars

\* The first withdrawal after an upkeep is all or nothing: when the gold of
\* the seat is what its treasuries hold, the call takes exactly gold or
\* returns false and takes nothing.
FirstWithdrawalAllOrNothing ==
    [][(WithdrawReturns /\ mGold[args'.seat] = GoldOfColor(goldInTile, args'.seat)) =>
          IF args'.returned
          THEN GoldOfColor(goldInTile', args'.seat)
                  = GoldOfColor(goldInTile, args'.seat) - args'.gold
          ELSE goldInTile' = goldInTile]_vars

\* The stack of modes is not empty and the menu mode is at its bottom.
MenuAtBottom == modesStack # <<>> /\ modesStack[1] = "MENU"

\* regressMode() with one mode on the stack leaves the stack as it is.
RegressAtBottomStays ==
    (args'.op = "regressMode" /\ Len(modesStack) = 1) => modesStack' = modesStack

\* regressMode() right after progressMode(m) makes the mode current that was
\* current before progressMode(m).
RegressUndoesProgress ==
    (args.op = "progressMode" /\ args'.op = "regressMode")
        => /\ modesStack' = args.before
           /\ top(modesStack') = top(args.before)

\* C40: after any calls of progressMode and regressMode the stack of modes
\* is not empty and has the menu mode at its bottom; regressMode on a stack
\* of one mode leaves it unchanged, and progressMode(m) followed by
\* regressMode restores the mode that was current before.
C40_ModeStackKeepsMenuAtBottom ==
    /\ []MenuAtBottom
    /\ [][RegressAtBottomStays /\ RegressUndoesProgress]_vars

\* A mode was entered above two others and left again.
C40_Witness ==
    /\ args.op = "regressMode"
    /\ Len(args.before) = 3
    /\ modesStack = pop(args.before)
    /\ getCurrentMode = "GAME"

\* The members of the room, trap and missile collections.
InCollections == Elements(rooms) \cup Elements(traps) \cup Elements(missileObjects)

\* C36: between the calls, every active object and every object waiting to
\* become active is in the room, trap or missile collection.
C36_ActiveObjectsAreInCollections ==
    pc = "idle"
      => Elements(activeObjects) \cup Elements(newActiveObjects) \subseteq InCollections

====
